---- MODULE Spec2Model ----
(***************************************************************************)
(* Model of the DeFi yield optimizer.                                      *)
(*                                                                         *)
(* The allocation engine, YieldFarmingStrategies (src/src/strategies.js),   *)
(* the risk scorers, and the backtest engine, BacktestEngine               *)
(* (src/unnamed/part_002), the performance statistics,                     *)
(* PerformanceAnalytics (src/src/analytics.js), and the settings,          *)
(* ConfigManager (src/config/settings.js).                                 *)
(*                                                                         *)
(* Number representation.  The code works on IEEE doubles; the model works *)
(* on exact integers in fixed units:                                       *)
(*   apy, minAPY            basis points      (0.0425  -> 425)             *)
(*   risk, riskTolerance    tenths            (0.7     -> 7)               *)
(*   maxSingleAllocation    percent           (0.25    -> 25)              *)
(*   amounts                currency units; the amounts the model feeds in *)
(*                          are multiples of 20, so that every             *)
(*                          totalAmount * maxSingleAllocation is a whole   *)
(*                          number of units                                *)
(* A quotient that the code stores (expectedYield, percentage,             *)
(* averageRisk) is kept as an unreduced fraction [num, den]; den = 0 with  *)
(* num = 0 is the double NaN (0/0).                                        *)
(***************************************************************************)
EXTENDS Integers, Sequences, FiniteSets, TLC

VARIABLES strategies, availableProtocols, call, result, phases, saved,
          engine, run, history, probe, analytics, config

allocVars == <<strategies, availableProtocols, call, result, phases, saved>>

\* the backtest engine, its current run, the runs finished so far, and the
\* last direct call of a method with what it returned
simVars == <<engine, run, history, probe>>

\* the PerformanceAnalytics instance and the ConfigManager instance
statVars == <<analytics, config>>

vars == <<strategies, availableProtocols, call, result, phases, saved,
          engine, run, history, probe, analytics, config>>

(***************************************************************************)
(* Bounds                                                                  *)
(***************************************************************************)
\* longest caller list enumerated exhaustively over the pool of records
MaxLen == 3

(***************************************************************************)
(* Program constants                                                       *)
(***************************************************************************)
\* let risk = 0.5  (tenths)
BaseRisk == 5
\* if (!protocol.audited) risk += 0.2
UnauditedPenalty == 2
\* if (protocol.ageInDays < 90) risk += 0.3
YoungPenalty == 3
YoungAgeDays == 90
\* if (protocol.tvl < 10000000) risk += 0.2
LowTvlPenalty == 2
LowTvl == 10000000
\* Math.min(1, risk)  (tenths)
RiskCeiling == 10
\* Math.min(protocols.length, 5)
ProtocolCap == 5

Min(a, b) == IF a <= b THEN a ELSE b

(***************************************************************************)
(* Fractions standing for the doubles the code obtains by division         *)
(***************************************************************************)
Frac(n, d) == [num |-> n, den |-> d]

Zero == Frac(0, 1)

\* numeric equality of two doubles; NaN equals nothing
FracEq(f, g) == /\ f.den # 0
                /\ g.den # 0
                /\ f.num * g.den = g.num * f.den

(***************************************************************************)
(* The strategy registry: initializeStrategies                             *)
(***************************************************************************)
initializeStrategies ==
    [conservative |->
        [name |-> "Conservative Yield", riskTolerance |-> 3, minAPY |-> 200,
         maxSingleAllocation |-> 25,
         preferredProtocols |-> <<"compound", "aave">>,
         rebalanceFrequency |-> "weekly"],
     moderate |->
        [name |-> "Moderate Growth", riskTolerance |-> 6, minAPY |-> 500,
         maxSingleAllocation |-> 40,
         preferredProtocols |-> <<"compound", "aave", "curve", "yearn">>,
         rebalanceFrequency |-> "daily"],
     aggressive |->
        [name |-> "High Yield Hunter", riskTolerance |-> 9, minAPY |-> 1000,
         maxSingleAllocation |-> 60,
         preferredProtocols |-> <<"yearn", "curve", "uniswap-v2">>,
         rebalanceFrequency |-> "hourly"]]

\* the value of Map.get for a key the map does not hold
undefined == [name |-> "undefined"]

getStrategyFallback(registry, name) ==
    IF name \in DOMAIN registry THEN registry[name] ELSE registry["moderate"]

getStrategy(registry, name) ==
    IF name \in DOMAIN registry THEN registry[name] ELSE undefined

(***************************************************************************)
(* String.prototype.toLowerCase on the protocol family strings in use      *)
(***************************************************************************)
toLowerCase(s) ==
    CASE s = "Compound"   -> "compound"
      [] s = "COMPOUND"   -> "compound"
      [] s = "Aave"       -> "aave"
      [] s = "Yearn"      -> "yearn"
      [] s = "Uniswap V2" -> "uniswap v2"
      [] s = "Uniswap-V2" -> "uniswap-v2"
      [] OTHER            -> s

\* Array.prototype.includes
includes(arr, x) == \E i \in 1..Len(arr) : arr[i] = x

(***************************************************************************)
(* calculateRisk (the strategy argument is not read by the code)           *)
(***************************************************************************)
\* A field an object does not have reads as undefined: `!undefined` is
\* true and `undefined < n` is false.
isTruthy(obj, f) == f \in DOMAIN obj /\ obj[f]

isLess(obj, f, n) == f \in DOMAIN obj /\ obj[f] < n

calculateRiskUnclamped(protocol, strategy) ==
    LET r0 == BaseRisk
        r1 == IF ~isTruthy(protocol, "audited") THEN r0 + UnauditedPenalty ELSE r0
        r2 == IF isLess(protocol, "ageInDays", YoungAgeDays) THEN r1 + YoungPenalty ELSE r1
        r3 == IF isLess(protocol, "tvl", LowTvl) THEN r2 + LowTvlPenalty ELSE r2
    IN  r3

calculateRisk(protocol, strategy) ==
    LET r0 == BaseRisk
        r1 == IF ~isTruthy(protocol, "audited") THEN r0 + UnauditedPenalty ELSE r0
        r2 == IF isLess(protocol, "ageInDays", YoungAgeDays) THEN r1 + YoungPenalty ELSE r1
        r3 == IF isLess(protocol, "tvl", LowTvl) THEN r2 + LowTvlPenalty ELSE r2
    IN  Min(RiskCeiling, r3)

(***************************************************************************)
(* BacktestEngine.assessRisk: the same penalties on a base of 0.3          *)
(***************************************************************************)
\* let risk = 0.3  (tenths)
AssessBaseRisk == 3

assessRisk(protocol) ==
    LET r0 == AssessBaseRisk
        r1 == IF ~isTruthy(protocol, "audited") THEN r0 + UnauditedPenalty ELSE r0
        r2 == IF isLess(protocol, "ageInDays", YoungAgeDays) THEN r1 + YoungPenalty ELSE r1
        r3 == IF isLess(protocol, "tvl", LowTvl) THEN r2 + LowTvlPenalty ELSE r2
    IN  Min(RiskCeiling, r3)

\* a.apy * (1 - this.calculateRisk(a, strategy))   (basis points x tenths)
riskAdjustedReturn(protocol, strategy) ==
    protocol.apy * (10 - calculateRisk(protocol, strategy))

(***************************************************************************)
(* optimizeForStrategy: the filter predicate                               *)
(***************************************************************************)
isSuitableAnyAPY(protocol, strategy) ==
    includes(strategy.preferredProtocols, toLowerCase(protocol.protocol))

isSuitableAnyFamily(protocol, strategy) ==
    protocol.apy >= strategy.minAPY

isSuitable(protocol, strategy) ==
    /\ protocol.apy >= strategy.minAPY
    /\ includes(strategy.preferredProtocols, toLowerCase(protocol.protocol))

\* Array.prototype.filter with the predicate above: a new array, input order
RECURSIVE filterSuitable(_, _)
filterSuitable(protocols, strategy) ==
    IF protocols = <<>> THEN <<>>
    ELSE LET rest == filterSuitable(Tail(protocols), strategy)
         IN  IF isSuitable(Head(protocols), strategy)
             THEN <<Head(protocols)>> \o rest
             ELSE rest

(***************************************************************************)
(* optimizeForStrategy: the sort.  Array.prototype.sort is stable and      *)
(* sorts the array it is called on in place; with a consistent comparator  *)
(* its result is the one a stable insertion sort produces.                 *)
(***************************************************************************)
compareAscending(a, b, strategy) ==
    riskAdjustedReturn(a, strategy) - riskAdjustedReturn(b, strategy)

\* the comparator: bRiskAdjustedReturn - aRiskAdjustedReturn
compare(a, b, strategy) ==
    riskAdjustedReturn(b, strategy) - riskAdjustedReturn(a, strategy)

\* number of leading elements of the sorted array that stay before x:
\* those the comparator does not order after x
RECURSIVE keepBefore(_, _, _)
keepBefore(sorted, x, strategy) ==
    IF sorted = <<>> THEN 0
    ELSE IF compare(Head(sorted), x, strategy) > 0 THEN 0
    ELSE 1 + keepBefore(Tail(sorted), x, strategy)

insertUnstable(sorted, x, strategy) ==
    LET less == SelectSeq(sorted, LAMBDA e : compare(e, x, strategy) < 0)
        rest == SelectSeq(sorted, LAMBDA e : compare(e, x, strategy) >= 0)
    IN  less \o <<x>> \o rest

insert(sorted, x, strategy) ==
    LET k == keepBefore(sorted, x, strategy)
    IN  SubSeq(sorted, 1, k) \o <<x>> \o SubSeq(sorted, k + 1, Len(sorted))

RECURSIVE sortFrom(_, _, _)
sortFrom(sorted, todo, strategy) ==
    IF todo = <<>> THEN sorted
    ELSE sortFrom(insert(sorted, Head(todo), strategy), Tail(todo), strategy)

sort(protocols, strategy) == sortFrom(<<>>, protocols, strategy)

(***************************************************************************)
(* createAllocation                                                        *)
(***************************************************************************)
maxProtocolsUncapped(protocols) == Len(protocols)

\* const maxProtocols = Math.min(protocols.length, 5)
maxProtocols(protocols) == Min(Len(protocols), ProtocolCap)

\* const maxAllocation = totalAmount * strategy.maxSingleAllocation
maxAllocation(totalAmount, strategy) ==
    (totalAmount * strategy.maxSingleAllocation) \div 100

allocationIgnoringRemaining(remainingAmount, cap) == cap

\* const allocation = Math.min(remainingAmount, maxAllocation)
allocation(remainingAmount, cap) == Min(remainingAmount, cap)

\* the loop variables before the first iteration
loopStart(totalAmount) ==
    [allocations |-> <<>>, remainingAmount |-> totalAmount,
     totalYield |-> 0, totalRisk |-> 0]

\* the body of the for loop for protocols[i]
loopBody(st, protocol, strategy, totalAmount) ==
    LET amt == allocation(st.remainingAmount, maxAllocation(totalAmount, strategy))
        risk == calculateRisk(protocol, strategy)
    IN  [allocations |-> Append(st.allocations,
                                [protocol |-> protocol.name,
                                 amount |-> amt,
                                 percentage |-> Frac(amt * 100, totalAmount),
                                 expectedAPY |-> protocol.apy,
                                 risk |-> risk]),
         remainingAmount |-> st.remainingAmount - amt,
         totalYield |-> st.totalYield + amt * protocol.apy,
         \* (allocation / totalAmount) * risk, numerator over totalAmount
         totalRisk |-> st.totalRisk + amt * risk]

\* for (let i = 0; i < maxProtocols && remainingAmount > 0; i++), i is 1-based here
RECURSIVE loop(_, _, _, _, _)
loop(st, i, protocols, strategy, totalAmount) ==
    IF i <= maxProtocols(protocols) /\ st.remainingAmount > 0
    THEN loop(loopBody(st, protocols[i], strategy, totalAmount),
              i + 1, protocols, strategy, totalAmount)
    ELSE st

createAllocation(protocols, strategy, totalAmount) ==
    LET st == loop(loopStart(totalAmount), 1, protocols, strategy, totalAmount)
    IN  [kind |-> "allocation",
         strategy |-> strategy.name,
         allocations |-> st.allocations,
         totalAmount |-> totalAmount,
         expectedYield |-> Frac(st.totalYield, totalAmount),
         \* every term was divided by totalAmount; with no term the sum is 0
         averageRisk |-> IF st.allocations = <<>> THEN Zero
                         ELSE Frac(st.totalRisk, totalAmount),
         diversification |-> Len(st.allocations)]

\* return { allocations: [], totalYield: 0, risk: 0 }
noSuitableResult ==
    [kind |-> "empty", allocations |-> <<>>, totalYield |-> Zero, risk |-> Zero]

\* throw new Error(`Strategy ${strategyName} not found`)
notFoundError(strategyName) ==
    [kind |-> "error", message |-> "Strategy not found", strategyName |-> strategyName]

(***************************************************************************)
(* Inputs.  The opportunity records the callers pass: the two records the  *)
(* fetcher produces and records in the same shape covering the other       *)
(* protocol families, spellings of the family, risk levels and yields at   *)
(* and around the strategies' minimum.                                     *)
(***************************************************************************)
Opp(n, f, y, t, a, d) ==
    [ageInDays |-> d, apy |-> y, audited |-> a, name |-> n, protocol |-> f, tvl |-> t]

Pool ==
    { Opp("Compound USDC", "Compound",    425,  850000000, TRUE,  1200),
      Opp("Aave DAI",      "aave",        425,  850000000, TRUE,  1200),
      Opp("Yearn yvDAI",   "Yearn",      1200,    5000000, FALSE,   30),
      Opp("Yearn USDC",    "yearn",       800,    5000000, TRUE,   400),
      Opp("Curve 3pool",   "curve",      1000,  500000000, TRUE,    60),
      Opp("Uniswap ETH",   "Uniswap V2", 1500,  300000000, TRUE,   700) }

\* lists without repeated records, up to n long
Lists(n) ==
    UNION { { l \in [1..k -> Pool] : \A i, j \in 1..k : l[i] = l[j] => i = j }
            : k \in 0..n }

\* two lists longer than the cap of createAllocation, with four records
\* the conservative strategy accepts
LongLists ==
    { << Opp("Compound USDC", "Compound",    425,  850000000, TRUE,  1200),
         Opp("Aave USDC",     "Aave",        389, 1200000000, TRUE,   900),
         Opp("Aave DAI",      "aave",        425,  850000000, TRUE,  1200),
         Opp("Compound DAI",  "COMPOUND",    200,   20000000, FALSE,  400),
         Opp("Yearn yvDAI",   "Yearn",      1200,    5000000, FALSE,   30),
         Opp("Yearn USDC",    "yearn",       800,    5000000, TRUE,   400),
         Opp("Curve 3pool",   "curve",      1000,  500000000, TRUE,    60),
         Opp("Uniswap ETH",   "Uniswap V2", 1500,  300000000, TRUE,   700) >>,
      << Opp("Uniswap ETH",   "Uniswap V2", 1500,  300000000, TRUE,   700),
         Opp("Curve 3pool",   "curve",      1000,  500000000, TRUE,    60),
         Opp("Yearn USDC",    "yearn",       800,    5000000, TRUE,   400),
         Opp("Yearn yvDAI",   "Yearn",      1200,    5000000, FALSE,   30),
         Opp("Compound DAI",  "COMPOUND",    200,   20000000, FALSE,  400),
         Opp("Aave DAI",      "aave",        425,  850000000, TRUE,  1200),
         Opp("Aave USDC",     "Aave",        389, 1200000000, TRUE,   900),
         Opp("Compound USDC", "Compound",    425,  850000000, TRUE,  1200) >> }

StrategyNames == {"conservative", "moderate", "aggressive", "ultraggressive"}

Amounts == {-100, 0, 1000}

\* the amounts createAllocation is called with directly
DirectAmounts == {0, 1000}

\* a strategy object a caller of createAllocation builds itself
customStrategy ==
    [name |-> "Custom", riskTolerance |-> 5, minAPY |-> 0,
     maxSingleAllocation |-> 10,
     preferredProtocols |-> <<"compound">>,
     rebalanceFrequency |-> "daily"]

(***************************************************************************)
(* State                                                                   *)
(*   strategies          this.strategies of the YieldFarmingStrategies     *)
(*   availableProtocols  the caller's array, passed to every call          *)
(*   call                the last call: method and arguments as passed     *)
(*   result              what the last call returned or threw              *)
(*   phases              the steps of the method the last call went through*)
(*   saved               an earlier call and its outcome, kept by the caller*)
(***************************************************************************)
noCall == [op |-> "none"]

\* no BacktestEngine constructed, no run, no direct call made
noEngine == [historicalData |-> <<>>, results |-> <<>>]

noRun == [status |-> "idle"]

noProbe == [op |-> "none"]

\* new PerformanceAnalytics(): metrics all 0, no data point
newAnalytics ==
    [historicalData |-> <<>>,
     metrics |-> [maxDrawdown |-> Zero, sharpeRatio |-> Zero, totalReturns |-> Zero,
                  volatility |-> Zero, winRate |-> Zero]]

\* the settings validate() reads, and one it does not read, in whole units:
\*   maxRiskTolerance  hundredths       (0.7   -> 70)
\*   minAPY            basis points     (0.02  -> 200)
\*   maxSlippage       ten-thousandths  (0.005 -> 50)
defaultSettings ==
    [maxPositions |-> 10, maxRiskTolerance |-> 70, maxSlippage |-> 50, minAPY |-> 200]

\* new ConfigManager(): the defaults, which validate
newConfig == [config |-> defaultSettings, last |-> [call |-> "constructor"], thrown |-> "none"]

noResult == [kind |-> "none"]

Init ==
    /\ strategies = initializeStrategies
    /\ availableProtocols \in Lists(MaxLen) \cup LongLists
    /\ call = noCall
    /\ result = noResult
    /\ phases = <<>>
    /\ saved = [call |-> noCall, result |-> noResult]
    /\ engine = noEngine
    /\ run = noRun
    /\ history = <<>>
    /\ probe = noProbe
    /\ analytics = newAnalytics
    /\ config = newConfig

suitableProtocolsArrayAliased == "caller"

\* the array `suitableProtocols` names: the fresh one filter returned
suitableProtocolsArray == "fresh"

OptimizeForStrategy(strategyName, amount) ==
    LET strategy == getStrategy(strategies, strategyName)
        theCall == [op |-> "optimizeForStrategy", strategyName |-> strategyName,
                    availableProtocols |-> availableProtocols, amount |-> amount]
    IN  /\ call' = theCall
        /\ UNCHANGED <<strategies, saved>>
        /\ UNCHANGED <<simVars, statVars>>
        /\ IF strategy = undefined
           THEN /\ result' = notFoundError(strategyName)
                /\ phases' = <<"getStrategy">>
                /\ UNCHANGED availableProtocols
           ELSE LET arrays0 == [caller |-> availableProtocols, fresh |-> <<>>]
                    arrays1 == [arrays0 EXCEPT ![suitableProtocolsArray] =
                                   filterSuitable(availableProtocols, strategy)]
                    suitableProtocols == arrays1[suitableProtocolsArray]
                IN  IF Len(suitableProtocols) = 0
                    THEN /\ result' = noSuitableResult
                         /\ phases' = <<"getStrategy", "filter">>
                         /\ availableProtocols' = arrays1.caller
                    ELSE LET arrays2 == [arrays1 EXCEPT ![suitableProtocolsArray] =
                                            sort(suitableProtocols, strategy)]
                             sortedProtocols == arrays2[suitableProtocolsArray]
                         IN  /\ result' = createAllocation(sortedProtocols, strategy, amount)
                             /\ phases' = <<"getStrategy", "filter", "sort", "createAllocation">>
                             /\ availableProtocols' = arrays2.caller

\* createAllocation called on the caller's array as it stands
CreateAllocation(strategy, totalAmount) ==
    /\ call' = [op |-> "createAllocation", strategy |-> strategy,
                availableProtocols |-> availableProtocols, amount |-> totalAmount]
    /\ result' = createAllocation(availableProtocols, strategy, totalAmount)
    /\ phases' = <<"createAllocation">>
    /\ UNCHANGED <<strategies, availableProtocols, saved>>
    /\ UNCHANGED <<simVars, statVars>>

\* the caller takes the outcome of the last call and keeps it
Keep ==
    /\ call # noCall
    /\ saved' = [call |-> call, result |-> result]
    /\ call' = noCall
    /\ result' = noResult
    /\ phases' = <<>>
    /\ UNCHANGED <<strategies, availableProtocols>>
    /\ UNCHANGED <<simVars, statVars>>

Next ==
    \/ \E strategyName \in StrategyNames, amount \in Amounts :
          OptimizeForStrategy(strategyName, amount)
    \/ \E totalAmount \in DirectAmounts : CreateAllocation(customStrategy, totalAmount)
    \/ Keep

Spec == Init /\ [][Next]_vars

(***************************************************************************)
(* Vocabulary of the properties                                            *)
(***************************************************************************)
IsOptimize == call.op = "optimizeForStrategy"

IsCreate == call.op = "createAllocation"

KnownStrategy == IsOptimize /\ call.strategyName \in DOMAIN initializeStrategies

\* the strategy profile the last call worked with
CallStrategy ==
    IF IsCreate THEN call.strategy ELSE initializeStrategies[call.strategyName]

\* eligibility as the design states it
Eligible(p, s) ==
    /\ p.apy >= s.minAPY
    /\ \E i \in 1..Len(s.preferredProtocols) :
          s.preferredProtocols[i] = toLowerCase(p.protocol)

EligibleIndexes(list, s) == { i \in 1..Len(list) : Eligible(list[i], s) }

Allocated == result.kind = "allocation"

Entries == result.allocations

\* risk-adjusted score of an entry: apy x (1 - risk)
EntryScore(e) == e.expectedAPY * (10 - e.risk)

RECURSIVE SumOver(_, _, _)
SumOver(entries, F(_), k) ==
    IF k = 0 THEN 0 ELSE F(entries[k]) + SumOver(entries, F, k - 1)

AmountOf(e) == e.amount

YieldOf(e) == e.amount * e.expectedAPY

RiskOf(e) == e.amount * e.risk

TotalAllocated == SumOver(Entries, AmountOf, Len(Entries))

\* position of the record named n in the list the caller passed
PositionOf(n) ==
    CHOOSE i \in 1..Len(call.availableProtocols) : call.availableProtocols[i].name = n

(***************************************************************************)
(* C1: for every registered strategy, opportunity list and totalAmount > 0 *)
(* the entries optimizeForStrategy returns add up to at most totalAmount   *)
(* and each entry is at most totalAmount x maxSingleAllocation.            *)
(***************************************************************************)
C1_WithinBudget ==
    (KnownStrategy /\ call.amount > 0) =>
        /\ TotalAllocated <= call.amount
        /\ \A k \in 1..Len(Entries) :
              Entries[k].amount * 100 <= call.amount * CallStrategy.maxSingleAllocation

\* three entries of 40%, 40% and 20%: the cap and the budget both bind
C1_Witness ==
    /\ KnownStrategy /\ call.amount > 0 /\ Allocated
    /\ Len(Entries) = 3
    /\ TotalAllocated = call.amount
    /\ Entries[1].amount * 100 = call.amount * CallStrategy.maxSingleAllocation
    /\ Entries[3].amount < Entries[1].amount

(***************************************************************************)
(* C2: the entries optimizeForStrategy returns are in non-increasing order *)
(* of risk-adjusted score apy x (1 - risk).                                *)
(***************************************************************************)
C2_NonIncreasingScore ==
    (IsOptimize /\ Allocated) =>
        \A k \in 1..(Len(Entries) - 1) :
            EntryScore(Entries[k]) >= EntryScore(Entries[k + 1])

\* the sort had work to do: the best entry was passed after the second best
C2_Witness ==
    /\ IsOptimize /\ Allocated
    /\ Len(Entries) >= 2
    /\ EntryScore(Entries[1]) > EntryScore(Entries[2])
    /\ PositionOf(Entries[1].protocol) > PositionOf(Entries[2].protocol)

(***************************************************************************)
(* C3: every entry is for an input opportunity with apy >= minAPY whose     *)
(* family, lower-cased, is in the strategy's list, and no opportunity that *)
(* fails either condition gets an entry.                                   *)
(***************************************************************************)
C3_OnlyEligible ==
    (IsOptimize /\ Allocated) =>
        /\ \A k \in 1..Len(Entries) :
              \E i \in 1..Len(call.availableProtocols) :
                 /\ call.availableProtocols[i].name = Entries[k].protocol
                 /\ call.availableProtocols[i].apy = Entries[k].expectedAPY
                 /\ Eligible(call.availableProtocols[i], CallStrategy)
        /\ \A i \in 1..Len(call.availableProtocols) :
              ~Eligible(call.availableProtocols[i], CallStrategy) =>
                 \A k \in 1..Len(Entries) :
                    Entries[k].protocol # call.availableProtocols[i].name

\* an entry for a family spelt with capitals, next to a record refused for
\* its yield and a record refused for its family
C3_Witness ==
    /\ IsOptimize /\ Allocated
    /\ \E k \in 1..Len(Entries) : Entries[k].protocol = "Yearn yvDAI"
    /\ \E i \in 1..Len(call.availableProtocols) :
          /\ call.availableProtocols[i].apy < CallStrategy.minAPY
          /\ toLowerCase(call.availableProtocols[i].protocol) = "aave"
    /\ \E i \in 1..Len(call.availableProtocols) :
          /\ call.availableProtocols[i].apy >= CallStrategy.minAPY
          /\ call.availableProtocols[i].protocol = "Uniswap V2"

(***************************************************************************)
(* C4: createAllocation allocates greedily in the order of the array it is *)
(* given, into at most 5 protocols: the k-th entry is for the k-th         *)
(* protocol and its amount is min(remaining before step k, totalAmount x   *)
(* maxSingleAllocation); no entry has amount 0; it goes on while protocols *)
(* and capital remain, but never beyond 5 entries.                         *)
(***************************************************************************)
\* the array createAllocation was given: the caller's, or the eligible
\* records in the order of the entries
GivenCount ==
    IF IsCreate THEN Len(call.availableProtocols)
    ELSE Cardinality(EligibleIndexes(call.availableProtocols, CallStrategy))

C4_GreedyAtMostFive ==
    ((IsCreate \/ KnownStrategy) /\ Allocated /\ call.amount > 0) =>
        /\ Len(Entries) <= 5
        /\ \A k \in 1..Len(Entries) :
              /\ Entries[k].amount * 100 =
                    Min((call.amount - SumOver(Entries, AmountOf, k - 1)) * 100,
                        call.amount * CallStrategy.maxSingleAllocation)
              /\ Entries[k].amount > 0
              /\ IsCreate => Entries[k].protocol = call.availableProtocols[k].name
        /\ Len(Entries) < Min(GivenCount, 5) => TotalAllocated = call.amount

\* five entries of 10% each, half of the capital left and more protocols
\* in the array
C4_Witness ==
    /\ IsCreate /\ Allocated /\ call.amount > 0
    /\ Len(Entries) = 5
    /\ TotalAllocated < call.amount
    /\ Len(call.availableProtocols) > 5

(***************************************************************************)
(* C5: expectedYield and averageRisk are the averages weighted by the      *)
(* capital actually allocated: sum(amount x apy) / sum(amount) and         *)
(* sum(amount x risk) / sum(amount), also when the cap leaves part of      *)
(* totalAmount unallocated.                                                *)
(***************************************************************************)
C5_WeightedOverAllocated ==
    (KnownStrategy /\ Allocated /\ call.amount > 0 /\ Len(Entries) > 0) =>
        /\ FracEq(result.expectedYield,
                  Frac(SumOver(Entries, YieldOf, Len(Entries)), TotalAllocated))
        /\ FracEq(result.averageRisk,
                  Frac(SumOver(Entries, RiskOf, Len(Entries)), TotalAllocated))

(***************************************************************************)
(* C6: when no input opportunity is eligible for the strategy, the list    *)
(* being empty or not, optimizeForStrategy returns a result with no        *)
(* entries, yield 0 and risk 0 and does not fail.                          *)
(***************************************************************************)
C6_NothingSuitable ==
    (KnownStrategy /\ EligibleIndexes(call.availableProtocols, CallStrategy) = {}) =>
        /\ result.kind = "empty"
        /\ result.allocations = <<>>
        /\ result.totalYield = Zero
        /\ result.risk = Zero

\* a list of three records, none of them eligible
C6_Witness ==
    /\ KnownStrategy
    /\ Len(call.availableProtocols) = 3
    /\ EligibleIndexes(call.availableProtocols, CallStrategy) = {}
    /\ result.kind = "empty"

(***************************************************************************)
(* C7: optimizeForStrategy with a name the registry does not hold fails    *)
(* right after the lookup, before filtering and allocating, and returns no *)
(* allocation result, whatever the list and the amount.                    *)
(***************************************************************************)
C7_UnknownStrategyFails ==
    (IsOptimize /\ call.strategyName \notin DOMAIN initializeStrategies) =>
        /\ result.kind = "error"
        /\ result.strategyName = call.strategyName
        /\ phases = <<"getStrategy">>

\* the unknown name with a list holding eligible records and a good amount
C7_Witness ==
    /\ IsOptimize /\ call.strategyName = "ultraggressive"
    /\ Len(call.availableProtocols) = 3
    /\ call.amount > 0
    /\ result.kind = "error"

(***************************************************************************)
(* C8: a call with totalAmount <= 0 fails and returns no allocation        *)
(* result.                                                                 *)
(***************************************************************************)
C8_NonPositiveAmountFails ==
    (call # noCall /\ call.amount <= 0) => result.kind = "error"

(***************************************************************************)
(* C9: a call leaves the caller's list and the registry as they were, and  *)
(* a call with the arguments of an earlier call, whatever was called in    *)
(* between, returns what the earlier one returned.                         *)
(***************************************************************************)
C9_Deterministic ==
    /\ strategies = initializeStrategies
    /\ call # noCall => availableProtocols = call.availableProtocols
    /\ saved.call = call => saved.result = result

\* a call repeated after its outcome was kept, where the sort had to
\* reorder the records
C9_Witness ==
    /\ IsOptimize /\ Allocated
    /\ saved.call = call
    /\ Len(Entries) >= 2
    /\ PositionOf(Entries[1].protocol) > PositionOf(Entries[2].protocol)

(***************************************************************************)
(* C10 as stated: consecutive entries are strictly decreasing in           *)
(* risk-adjusted score.                                                    *)
(***************************************************************************)
C10_StrictlyDecreasing ==
    (IsOptimize /\ Allocated) =>
        \A k \in 1..(Len(Entries) - 1) :
            EntryScore(Entries[k]) > EntryScore(Entries[k + 1])

(***************************************************************************)
(* C10 amended: consecutive entries are strictly decreasing in             *)
(* risk-adjusted score except where the scores are equal; entries of equal *)
(* score are all kept and stay in the order the caller's list had them.    *)
(***************************************************************************)
C10_DecreasingTiesInInputOrder ==
    (IsOptimize /\ Allocated) =>
        \A k \in 1..(Len(Entries) - 1) :
            \/ EntryScore(Entries[k]) > EntryScore(Entries[k + 1])
            \/ /\ EntryScore(Entries[k]) = EntryScore(Entries[k + 1])
               /\ PositionOf(Entries[k].protocol) < PositionOf(Entries[k + 1].protocol)

\* two entries of equal score next to each other
C10_Witness ==
    /\ IsOptimize /\ Allocated
    /\ \E k \in 1..(Len(Entries) - 1) :
          /\ EntryScore(Entries[k]) = EntryScore(Entries[k + 1])
          /\ Entries[k].protocol # Entries[k + 1].protocol

(***************************************************************************)
(***************************************************************************)
(* Direct calls of the methods that compute without the state of a run:    *)
(* calculateRisk, assessRisk, makeStrategyDecision, calculatePortfolioValue*)
(* and executeBuy / executeSell.  probe holds the last call (method and    *)
(* arguments) and what it returned or threw.                               *)
(***************************************************************************)
(***************************************************************************)

\* the allocation engine constructed and not called
allocIdle ==
    /\ strategies = initializeStrategies
    /\ availableProtocols = <<>>
    /\ call = noCall
    /\ result = noResult
    /\ phases = <<>>
    /\ saved = [call |-> noCall, result |-> noResult]

(***************************************************************************)
(* Opportunity records for the risk scorers: every combination of the      *)
(* three fields the scorers read, at and around the thresholds, each field *)
(* also absent; two yields, which the scorers do not read.                 *)
(***************************************************************************)
AuditedValues == {"true", "false", "absent"}

AgeValues == {0, 89, 90, 1200}

TvlValues == {0, 9999999, 10000000, 850000000}

\* the record with the fields given; aud = "absent" and the two flags say
\* which fields the record lacks
RiskRecord(apy, aud, agePresent, age, tvlPresent, tvl) ==
    LET a == aud = "true"
    IN  CASE aud # "absent" /\ agePresent /\ tvlPresent ->
               [ageInDays |-> age, apy |-> apy, audited |-> a, name |-> "Probe", protocol |-> "compound", tvl |-> tvl]
          [] aud # "absent" /\ agePresent /\ ~tvlPresent ->
               [ageInDays |-> age, apy |-> apy, audited |-> a, name |-> "Probe", protocol |-> "compound"]
          [] aud # "absent" /\ ~agePresent /\ tvlPresent ->
               [apy |-> apy, audited |-> a, name |-> "Probe", protocol |-> "compound", tvl |-> tvl]
          [] aud # "absent" /\ ~agePresent /\ ~tvlPresent ->
               [apy |-> apy, audited |-> a, name |-> "Probe", protocol |-> "compound"]
          [] aud = "absent" /\ agePresent /\ tvlPresent ->
               [ageInDays |-> age, apy |-> apy, name |-> "Probe", protocol |-> "compound", tvl |-> tvl]
          [] aud = "absent" /\ agePresent /\ ~tvlPresent ->
               [ageInDays |-> age, apy |-> apy, name |-> "Probe", protocol |-> "compound"]
          [] aud = "absent" /\ ~agePresent /\ tvlPresent ->
               [apy |-> apy, name |-> "Probe", protocol |-> "compound", tvl |-> tvl]
          [] OTHER ->
               [apy |-> apy, name |-> "Probe", protocol |-> "compound"]

RiskRecords ==
    { RiskRecord(apy, aud, TRUE, age, TRUE, tvl) :
         apy \in {425, 1200}, aud \in AuditedValues, age \in AgeValues, tvl \in TvlValues }
    \cup
    { RiskRecord(425, aud, FALSE, 0, TRUE, tvl) : aud \in AuditedValues, tvl \in TvlValues }
    \cup
    { RiskRecord(425, aud, TRUE, age, FALSE, 0) : aud \in AuditedValues, age \in AgeValues }
    \cup
    { RiskRecord(425, aud, FALSE, 0, FALSE, 0) : aud \in AuditedValues }

MethodInit ==
    /\ allocIdle
    /\ engine = noEngine
    /\ run = noRun
    /\ history = <<>>
    /\ probe = noProbe
    /\ analytics = newAnalytics
    /\ config = newConfig

\* strategies.calculateRisk(protocol, strategy)
CalculateRisk(protocol, strategyName) ==
    /\ probe' = [op |-> "calculateRisk", protocol |-> protocol,
                 returned |-> calculateRisk(protocol, getStrategy(strategies, strategyName)),
                 strategyName |-> strategyName]
    /\ UNCHANGED <<allocVars, engine, run, history, statVars>>

\* engine.assessRisk(protocol)
AssessRisk(protocol) ==
    /\ probe' = [op |-> "assessRisk", protocol |-> protocol,
                 returned |-> assessRisk(protocol)]
    /\ UNCHANGED <<allocVars, engine, run, history, statVars>>

(***************************************************************************)
(* BacktestEngine: the decision of one step                                *)
(*                                                                         *)
(* Units: momentum in hundredths (0.05 -> 5); prices and capital whole     *)
(* numbers; quantities held are even whole numbers where they are halved.  *)
(* A portfolio object is the sequence of its [protocol, amount] entries in *)
(* insertion order, the order Object.entries walks string keys in.         *)
(* A prices object is a function from the names it has to their prices.    *)
(***************************************************************************)
\* momentum > 0.05
MomentumThreshold == 5

\* a.apy * (1 - this.assessRisk(a))
backtestScore(p) == p.apy * (10 - assessRisk(p))

\* the two filters of findBestProtocol, in input order
RECURSIVE filterCandidates(_, _)
filterCandidates(protocols, strategyConfig) ==
    IF protocols = <<>> THEN <<>>
    ELSE LET rest == filterCandidates(Tail(protocols), strategyConfig)
             p == Head(protocols)
         IN  IF /\ includes(strategyConfig.preferredProtocols, toLowerCase(p.protocol))
                /\ p.apy >= strategyConfig.minAPY
             THEN <<p>> \o rest
             ELSE rest

\* stable sort by the comparator bScore - aScore
RECURSIVE keepBeforeScore(_, _)
keepBeforeScore(sorted, x) ==
    IF sorted = <<>> THEN 0
    ELSE IF backtestScore(x) - backtestScore(Head(sorted)) > 0 THEN 0
    ELSE 1 + keepBeforeScore(Tail(sorted), x)

RECURSIVE sortByScore(_, _)
sortByScore(sorted, todo) ==
    IF todo = <<>> THEN sorted
    ELSE LET k == keepBeforeScore(sorted, Head(todo))
         IN  sortByScore(SubSeq(sorted, 1, k) \o <<Head(todo)>>
                             \o SubSeq(sorted, k + 1, Len(sorted)),
                         Tail(todo))

\* element [0] of the filtered, sorted array; undefined when it is empty
findBestProtocol(protocols, strategyConfig) ==
    LET sorted == sortByScore(<<>>, filterCandidates(protocols, strategyConfig))
    IN  IF sorted = <<>> THEN undefined ELSE sorted[1]

\* the methods the class BacktestEngine defines
BacktestEngineMethods ==
    {"runBacktest", "makeStrategyDecision", "findBestProtocol", "assessRisk",
     "executeBuy", "executeSell", "calculatePortfolioValue", "calculateMaxDrawdown",
     "calculateSharpeRatio", "filterDataByDate", "compareStrategies",
     "generateReport", "calculateWinRate", "exportResults", "convertToCSV"}

holdDecision == [action |-> "hold"]

\* what evaluating a call of a method the object does not have does
notAFunction(method) ==
    [action |-> "throw", error |-> "TypeError", method |-> method]

buyDecisionWithCapital(bestProtocol) ==
    [action |-> "buy", amount |-> 1000, protocol |-> bestProtocol.name]

\* the object literal of the buy decision: its amount calls
\* this.getAvailableCapital(), which the class does not define
buyDecision(bestProtocol) ==
    IF "getAvailableCapital" \in BacktestEngineMethods
    THEN [action |-> "buy", protocol |-> bestProtocol.name]
    ELSE notAFunction("getAvailableCapital")

\* marketData.signals && marketData.signals.momentum > 0.05
momentumSignal(marketData) ==
    /\ "signals" \in DOMAIN marketData
    /\ marketData.signals.momentum > MomentumThreshold

\* bestProtocol && bestProtocol.apy > strategyConfig.minAPY
worthBuying(bestProtocol, strategyConfig) ==
    /\ bestProtocol # undefined
    /\ bestProtocol.apy > strategyConfig.minAPY

\* marketData.protocols.find(p => p.name === protocol)
RECURSIVE find(_, _)
find(protocols, name) ==
    IF protocols = <<>> THEN undefined
    ELSE IF Head(protocols).name = name THEN Head(protocols)
    ELSE find(Tail(protocols), name)

sellAmountDouble(amount) == amount * 2

\* amount * 0.5
sellAmount(amount) == amount \div 2

tooRiskyOrEqual(protocolData, strategyConfig) ==
    /\ protocolData # undefined
    /\ assessRisk(protocolData) >= strategyConfig.riskTolerance

\* protocolData && this.assessRisk(protocolData) > strategyConfig.riskTolerance
tooRisky(protocolData, strategyConfig) ==
    /\ protocolData # undefined
    /\ assessRisk(protocolData) > strategyConfig.riskTolerance

\* the risk management loop over Object.entries(currentPortfolio)
RECURSIVE sellLoop(_, _, _)
sellLoop(entries, marketData, strategyConfig) ==
    IF entries = <<>> THEN holdDecision
    ELSE IF tooRisky(find(marketData.protocols, Head(entries).protocol), strategyConfig)
    THEN [action |-> "sell", amount |-> sellAmount(Head(entries).amount),
          protocol |-> Head(entries).protocol]
    ELSE sellLoop(Tail(entries), marketData, strategyConfig)

makeStrategyDecision(registry, strategyName, marketData, currentPortfolio) ==
    LET strategyConfig == getStrategy(registry, strategyName)
    IN  IF strategyConfig = undefined THEN holdDecision
        ELSE IF /\ momentumSignal(marketData)
                /\ worthBuying(findBestProtocol(marketData.protocols, strategyConfig),
                               strategyConfig)
        THEN buyDecision(findBestProtocol(marketData.protocols, strategyConfig))
        ELSE sellLoop(currentPortfolio, marketData, strategyConfig)

\* prices[protocol] || 1
priceOr1(prices, protocol) ==
    IF protocol \in DOMAIN prices /\ prices[protocol] # 0 THEN prices[protocol] ELSE 1

RECURSIVE calculatePortfolioValue(_, _)
calculatePortfolioValue(portfolio, prices) ==
    IF portfolio = <<>> THEN 0
    ELSE Head(portfolio).amount * priceOr1(prices, Head(portfolio).protocol)
            + calculatePortfolioValue(Tail(portfolio), prices)

(***************************************************************************)
(* Inputs of the direct calls                                              *)
(***************************************************************************)
\* most protocols a portfolio passed to a direct call holds
MaxHeld == 3

\* the protocol lists of the snapshots
MarketLists ==
    { << Opp("Compound USDC", "Compound",  425,  850000000, TRUE,  1200),
         Opp("Aave DAI",      "aave",      425,  850000000, TRUE,  1200),
         Opp("Yearn yvDAI",   "Yearn",    1200,    5000000, FALSE,   30),
         Opp("Yearn USDC",    "yearn",     800,    5000000, TRUE,   400) >>,
      << Opp("Yearn USDC",    "yearn",     800,    5000000, TRUE,   400),
         Opp("Compound DAI",  "COMPOUND",  200,   20000000, TRUE,   400),
         Opp("Curve 3pool",   "curve",    1000,  500000000, TRUE,    60),
         Opp("Yearn yvDAI",   "Yearn",    1200,    5000000, FALSE,   30) >>,
      << >> }

\* momentum signals; -1 stands for a snapshot without the signals field
Momenta == {-1, 5, 6}

\* the strategy names of the decisions: two registered ones and an unknown one
DecisionNames == {"conservative", "aggressive", "ultraggressive"}

Snapshot(ts, protocols, momentum, prices) ==
    IF momentum < 0
    THEN [prices |-> prices, protocols |-> protocols, timestamp |-> ts]
    ELSE [prices |-> prices, protocols |-> protocols,
          signals |-> [momentum |-> momentum], timestamp |-> ts]

\* prices objects: all held names priced; one name absent and one priced 0
PriceObjects ==
    { [n \in {"Compound USDC", "Yearn yvDAI", "Yearn USDC", "Delisted"} |->
          CASE n = "Compound USDC" -> 2 [] n = "Yearn yvDAI" -> 3
            [] n = "Yearn USDC" -> 5 [] OTHER -> 7],
      [n \in {"Compound USDC", "Yearn yvDAI"} |->
          IF n = "Compound USDC" THEN 2 ELSE 0] }

HeldNames == {"Compound USDC", "Yearn yvDAI", "Yearn USDC", "Delisted"}

HeldAmount(n) ==
    CASE n = "Compound USDC" -> 10 [] n = "Yearn yvDAI" -> 4
      [] n = "Yearn USDC" -> 6 [] OTHER -> 8

\* portfolios of up to n protocols, in every insertion order
Portfolios(n) ==
    UNION { { [i \in 1..k |-> [amount |-> HeldAmount(l[i]), protocol |-> l[i]]] :
                 l \in { f \in [1..k -> HeldNames] : \A i, j \in 1..k : f[i] = f[j] => i = j } }
            : k \in 0..n }

\* the market data handed to a decision: every market list under every momentum
MarketSnapshots ==
    { Snapshot(1, protocols, momentum, <<>>) :
         protocols \in MarketLists, momentum \in Momenta }

\* engine.makeStrategyDecision(strategyName, marketData, currentPortfolio)
MakeStrategyDecision(strategyName, marketData, currentPortfolio) ==
    /\ probe' = [currentPortfolio |-> currentPortfolio, marketData |-> marketData,
                 op |-> "makeStrategyDecision",
                 returned |-> makeStrategyDecision(strategies, strategyName,
                                                   marketData, currentPortfolio),
                 strategyName |-> strategyName]
    /\ UNCHANGED <<allocVars, engine, run, history, statVars>>

\* engine.calculatePortfolioValue(portfolio, prices)
CalculatePortfolioValue(portfolio, prices) ==
    /\ probe' = [op |-> "calculatePortfolioValue", portfolio |-> portfolio,
                 prices |-> prices,
                 returned |-> calculatePortfolioValue(portfolio, prices)]
    /\ UNCHANGED <<allocVars, engine, run, history, statVars>>

MethodNext ==
    \/ \E protocol \in RiskRecords, strategyName \in {"conservative", "aggressive"} :
          CalculateRisk(protocol, strategyName)
    \/ \E protocol \in RiskRecords : AssessRisk(protocol)
    \/ \E strategyName \in DecisionNames, marketData \in MarketSnapshots,
          currentPortfolio \in Portfolios(MaxHeld) :
          MakeStrategyDecision(strategyName, marketData, currentPortfolio)
    \/ \E portfolio \in Portfolios(MaxHeld), prices \in PriceObjects :
          CalculatePortfolioValue(portfolio, prices)

MethodSpec == MethodInit /\ [][MethodNext]_vars

(***************************************************************************)
(* Doubles.  Whether a volatility is exactly 0 depends on the rounding of  *)
(* the mean of the returns, so the mean is computed as the code's          *)
(* arithmetic computes it: in IEEE 754 binary64, round to nearest, ties to *)
(* even.  A positive double is [m, u], of value m * 2^u with               *)
(* 2^52 <= m < 2^53.  The integer m, and the wider integers the operations *)
(* pass through, are written as four limbs <<t, a, b, c>> of value         *)
(* ((t * 2^15 + a) * 2^15 + b) * 2^15 + c with a, b, c < 2^15.  The values *)
(* that occur are far from overflow and underflow.                         *)
(***************************************************************************)
RECURSIVE pow2(_)
pow2(k) == IF k = 0 THEN 1 ELSE 2 * pow2(k - 1)

\* the base of the three lower limbs
Limb == pow2(15)

\* the top limb of a significand of 53 bits is in TopLow .. 2 * TopLow - 1
TopLow == pow2(7)

\* limbs * f, for a small integer f
scale(l, f) ==
    LET c == l[4] * f
        b == l[3] * f + c \div Limb
        a == l[2] * f + b \div Limb
    IN  << l[1] * f + a \div Limb, a % Limb, b % Limb, c % Limb >>

\* l + m
addLimbs(l, m) ==
    LET c == l[4] + m[4]
        b == l[3] + m[3] + c \div Limb
        a == l[2] + m[2] + b \div Limb
    IN  << l[1] + m[1] + a \div Limb, a % Limb, b % Limb, c % Limb >>

\* l divided by a small integer n: the quotient and the remainder
divSmall(l, n) ==
    LET a == (l[1] % n) * Limb + l[2]
        b == (a % n) * Limb + l[3]
        c == (b % n) * Limb + l[4]
    IN  [q |-> << l[1] \div n, a \div n, b \div n, c \div n >>, rem |-> c % n]

\* how many bits the integer with top limb t has above 53
RECURSIVE excess(_)
excess(t) == IF t < 2 * TopLow THEN 0 ELSE 1 + excess(t \div 2)

\* the double nearest to (l + f) * 2^u, for an integer l of more than 53
\* bits and a fraction f in [0,1) that is not 0 iff sticky
roundToDouble(l, sticky, u) ==
    LET j == excess(l[1])
        d == divSmall(l, pow2(j))
        half == pow2(j - 1)
        up == \/ d.rem > half
              \/ d.rem = half /\ (sticky \/ d.q[4] % 2 = 1)
        inc == addLimbs(d.q, <<0, 0, 0, 1>>)
    IN  IF ~up THEN [m |-> d.q, u |-> u + j]
        ELSE IF inc[1] = 2 * TopLow THEN [m |-> <<TopLow, 0, 0, 0>>, u |-> u + j + 1]
        ELSE [m |-> inc, u |-> u + j]

\* the largest k with x * 2^k <= y, for x <= y
RECURSIVE shiftsBelow(_, _)
shiftsBelow(x, y) == IF 2 * x > y THEN 0 ELSE 1 + shiftsBelow(2 * x, y)

\* the smallest k with x * 2^k >= y
RECURSIVE shiftsUpTo(_, _)
shiftsUpTo(x, y) == IF x >= y THEN 0 ELSE 1 + shiftsUpTo(2 * x, y)

\* the double a / b of two positive integers below 2^13: num / den is
\* a / b scaled into [1,2), of which 63 bits are taken before rounding
quotient(a, b) ==
    LET up == a >= b
        k == IF up THEN shiftsBelow(b, a) ELSE shiftsUpTo(a, b)
        num == IF up THEN a ELSE a * pow2(k)
        den == IF up THEN b * pow2(k) ELSE b
        t == num * pow2(17)
        x == (t % den) * Limb
        y == (x % den) * Limb
        z == (y % den) * Limb
    IN  roundToDouble(<< t \div den, x \div den, y \div den, z \div den >>,
                      z % den # 0,
                      (IF up THEN k ELSE 0 - k) - 62)

\* the double x + y, for positive doubles x >= y not more than 2^10 apart
plus(x, y) == roundToDouble(addLimbs(scale(x.m, pow2(x.u - y.u)), y.m), FALSE, y.u)

\* the double x / n, for a positive double x and an integer n in 1..255
over(x, n) ==
    LET d == divSmall(scale(x.m, pow2(10)), n)
    IN  roundToDouble(d.q, d.rem # 0, x.u - 10)

\* 0 + r + r + ... + r, count times, as reduce((sum, r) => sum + r, 0) adds:
\* each partial sum is a double before the next r is added to it
RECURSIVE sumOfEqual(_, _)
sumOfEqual(r, count) ==
    IF count = 1 THEN r
    ELSE CHOOSE next \in { plus(sum, r) : sum \in {sumOfEqual(r, count - 1)} } : TRUE

\* is the mean of count returns, all the double |num / den|, that double?
meanIsTheReturn(num, den, count) ==
    LET r == quotient(IF num < 0 THEN 0 - num ELSE num, IF den < 0 THEN 0 - den ELSE den)
    IN  over(sumOfEqual(r, count), count) = r

\* a return that is the double 0
isZeroReturn(r) == r.den # 0 /\ r.num = 0

\* is Math.sqrt(variance) exactly 0?  The variance is a sum of squares of
\* r - mean: it is 0 when every return is the mean, and positive otherwise.
\* Returns that differ cannot all be the mean; equal returns are the mean
\* when the rounded sum divided by their number gives the return back.
zeroVolatility(returns) ==
    /\ \A k \in 1..Len(returns) : returns[k].den # 0
    /\ \A k \in 1..Len(returns) : FracEq(returns[k], returns[1])
    /\ \/ isZeroReturn(returns[1])
       \/ meanIsTheReturn(returns[1].num, returns[1].den, Len(returns))

(***************************************************************************)
(* The backtest run: runBacktest                                           *)
(*                                                                         *)
(* runBacktest has no await in its body: a call runs to its end before any *)
(* other call of the engine starts.  The model follows it snapshot by      *)
(* snapshot: RunBacktest is the code before the loop, Step one iteration   *)
(* of the loop, Finish the code after it.                                  *)
(*                                                                         *)
(* this.results, a Map, is a sequence of [key, value] in insertion order;  *)
(* a date is the timestamp it was made from.                               *)
(***************************************************************************)
\* most runs started in one behaviour
MaxRuns == 2

\* this.historicalData.filter(data => timestamp >= startDate && timestamp <= endDate)
RECURSIVE filterDataByDate(_, _, _)
filterDataByDate(historicalData, startDate, endDate) ==
    IF historicalData = <<>> THEN <<>>
    ELSE LET rest == filterDataByDate(Tail(historicalData), startDate, endDate)
             data == Head(historicalData)
         IN  IF data.timestamp >= startDate /\ data.timestamp <= endDate
             THEN <<data>> \o rest
             ELSE rest

\* Map.prototype.has, get and set
mapHas(map, key) == \E k \in 1..Len(map) : map[k].key = key

mapGet(map, key) == map[CHOOSE k \in 1..Len(map) : map[k].key = key].value

mapSet(map, key, value) ==
    IF mapHas(map, key)
    THEN [k \in 1..Len(map) |->
             IF map[k].key = key THEN [key |-> key, value |-> value] ELSE map[k]]
    ELSE Append(map, [key |-> key, value |-> value])

resultsCarriedOver(strategy, initialCapital) ==
    IF mapHas(engine.results, strategy)
    THEN mapGet(engine.results, strategy)
    ELSE [dailyReturns |-> <<>>, finalCapital |-> 0, initialCapital |-> initialCapital,
          maxDrawdown |-> Zero, portfolioHistory |-> <<>>, sharpeRatio |-> Zero,
          strategy |-> strategy, totalReturn |-> Zero, trades |-> <<>>]

\* const results = { strategy, initialCapital, finalCapital: 0, ... }
emptyResults(strategy, initialCapital) ==
    [dailyReturns |-> <<>>, finalCapital |-> 0, initialCapital |-> initialCapital,
     maxDrawdown |-> Zero, portfolioHistory |-> <<>>, sharpeRatio |-> Zero,
     strategy |-> strategy, totalReturn |-> Zero, trades |-> <<>>]

\* executeBuy: no test of the cash at hand, a trade object in every case
executeBuy(protocol, amount, prices, now) ==
    [amount |-> amount, cost |-> amount * priceOr1(prices, protocol),
     price |-> priceOr1(prices, protocol), protocol |-> protocol, timestamp |-> now]

\* executeSell: a trade object in every case
executeSell(protocol, amount, prices, now) ==
    [amount |-> amount, price |-> priceOr1(prices, protocol),
     proceeds |-> amount * priceOr1(prices, protocol), protocol |-> protocol,
     timestamp |-> now]

\* portfolio[protocol] = (portfolio[protocol] || 0) + amount
portfolioAdd(portfolio, protocol, amount) ==
    IF \E k \in 1..Len(portfolio) : portfolio[k].protocol = protocol
    THEN [k \in 1..Len(portfolio) |->
             IF portfolio[k].protocol = protocol
             THEN [amount |-> portfolio[k].amount + amount, protocol |-> protocol]
             ELSE portfolio[k]]
    ELSE Append(portfolio, [amount |-> amount, protocol |-> protocol])

\* portfolio[protocol] -= amount, of a protocol that is held
portfolioSubtract(portfolio, protocol, amount) ==
    [k \in 1..Len(portfolio) |->
        IF portfolio[k].protocol = protocol
        THEN [amount |-> portfolio[k].amount - amount, protocol |-> protocol]
        ELSE portfolio[k]]

\* the trade branches of the loop body on the cash, the holdings, the
\* positions and the trade log
applyDecision(st, decision, prices, date, now) ==
    IF decision.action = "buy"
    THEN LET trade == executeBuy(decision.protocol, decision.amount, prices, now)
         IN  [currentCapital |-> st.currentCapital - trade.cost,
              portfolio |-> portfolioAdd(st.portfolio, decision.protocol, trade.amount),
              positions |-> Append(st.positions, trade),
              trades |-> Append(st.trades,
                                [amount |-> trade.amount, cost |-> trade.cost,
                                 date |-> date, price |-> trade.price,
                                 protocol |-> trade.protocol,
                                 timestamp |-> trade.timestamp, type |-> "buy"])]
    ELSE IF decision.action = "sell"
    THEN LET trade == executeSell(decision.protocol, decision.amount, prices, now)
         IN  [currentCapital |-> st.currentCapital + trade.proceeds,
              portfolio |-> portfolioSubtract(st.portfolio, decision.protocol, trade.amount),
              positions |-> st.positions,
              trades |-> Append(st.trades,
                                [amount |-> trade.amount, date |-> date,
                                 price |-> trade.price, proceeds |-> trade.proceeds,
                                 protocol |-> trade.protocol,
                                 timestamp |-> trade.timestamp, type |-> "sell"])]
    ELSE st

historyEntryHoldingsOnly(date, currentCapital, portfolioValue) ==
    [capital |-> currentCapital, date |-> date, portfolioValue |-> portfolioValue,
     totalValue |-> portfolioValue]

\* { date, capital: currentCapital, portfolioValue, totalValue }
historyEntry(date, currentCapital, portfolioValue) ==
    [capital |-> currentCapital, date |-> date, portfolioValue |-> portfolioValue,
     totalValue |-> currentCapital + portfolioValue]

\* x > y on doubles; false when either is NaN
FracGt(x, y) ==
    /\ x.den # 0
    /\ y.den # 0
    /\ IF (x.den > 0) = (y.den > 0)
       THEN x.num * y.den > y.num * x.den
       ELSE x.num * y.den < y.num * x.den

\* the loop of calculateMaxDrawdown
RECURSIVE drawdownLoop(_, _, _)
drawdownLoop(entries, peak, maxDrawdown) ==
    IF entries = <<>> THEN maxDrawdown
    ELSE LET value == Head(entries).totalValue
             newPeak == IF value > peak THEN value ELSE peak
             drawdown == Frac(newPeak - value, newPeak)
         IN  drawdownLoop(Tail(entries), newPeak,
                          IF FracGt(drawdown, maxDrawdown) THEN drawdown ELSE maxDrawdown)

\* peak = portfolioHistory[0]?.totalValue || 0
calculateMaxDrawdown(portfolioHistory) ==
    drawdownLoop(portfolioHistory,
                 IF portfolioHistory = <<>> THEN 0 ELSE portfolioHistory[1].totalValue,
                 Zero)

\* calculateSharpeRatio: 0 without returns; 0 when the volatility is exactly
\* 0; otherwise the value the floating-point arithmetic gives for these
\* returns, which the model keeps as a function of them without evaluating
\* it
calculateSharpeRatio(dailyReturns) ==
    IF Len(dailyReturns) = 0 THEN Zero
    ELSE IF zeroVolatility(dailyReturns) THEN Zero
    ELSE [sharpeOf |-> dailyReturns]

\* reading .totalValue of portfolioHistory[-1], which is undefined
readOfUndefined == "TypeError"

(***************************************************************************)
(* Inputs of the runs                                                      *)
(***************************************************************************)
\* prices under which a buy of cash x 0.1 costs more than the cash
DearPrices ==
    [n \in {"Compound USDC", "Aave DAI", "Yearn yvDAI", "Yearn USDC"} |->
        IF n = "Yearn USDC" THEN 5 ELSE 20]

CheapPrices ==
    [n \in {"Compound USDC", "Aave DAI", "Yearn yvDAI", "Yearn USDC"} |->
        IF n = "Compound USDC" THEN 2 ELSE 3]

FirstMarket ==
    << Opp("Compound USDC", "Compound",  425,  850000000, TRUE,  1200),
       Opp("Aave DAI",      "aave",      425,  850000000, TRUE,  1200),
       Opp("Yearn yvDAI",   "Yearn",    1200,    5000000, FALSE,   30),
       Opp("Yearn USDC",    "yearn",     800,    5000000, TRUE,   400) >>

SecondMarket ==
    << Opp("Yearn USDC",    "yearn",     800,    5000000, TRUE,   400),
       Opp("Compound DAI",  "COMPOUND",  200,   20000000, TRUE,   400),
       Opp("Curve 3pool",   "curve",    1000,  500000000, TRUE,    60) >>

\* a snapshot without a momentum above the threshold
Quiet(ts) == Snapshot(ts, FirstMarket, 5, CheapPrices)

\* momentum above the threshold, the best opportunity of the conservative
\* strategy exactly at its minAPY
Boundary(ts) == Snapshot(ts, SecondMarket, 6, CheapPrices)

\* momentum above the threshold and opportunities above minAPY
Trigger(ts) == Snapshot(ts, FirstMarket, 6, DearPrices)

\* historical data: in chronological order, in reverse order, and with a
\* snapshot at which the buy condition holds
HistoricalDataSets ==
    { << Quiet(1), Boundary(2), Quiet(3) >>,
      << Quiet(3), Boundary(2), Quiet(1) >>,
      << Quiet(1), Trigger(2), Quiet(3) >> }

\* a registered strategy and a name the registry does not have
RunStrategies == {"conservative", "ultraggressive"}

\* the last range holds no snapshot of any data set
DateRanges == { <<1, 3>>, <<2, 3>>, <<4, 5>> }

\* initialCapital = 10000
InitialCapitals == {10000}

\* values Date.now() returns
Clock == {100, 200}

(***************************************************************************)
(* Actions of the backtest engine                                          *)
(***************************************************************************)
BacktestInit ==
    /\ allocIdle
    /\ engine = noEngine
    /\ run = noRun
    /\ history = <<>>
    /\ probe = noProbe
    /\ analytics = newAnalytics
    /\ config = newConfig

\* new BacktestEngine(strategies, historicalData)
NewEngine(historicalData) ==
    /\ run.status # "running"
    /\ engine' = [historicalData |-> historicalData, results |-> <<>>]
    /\ run' = noRun
    /\ UNCHANGED <<allocVars, history, probe, statVars>>

\* runBacktest up to the loop
RunBacktest(strategy, startDate, endDate, initialCapital) ==
    /\ run.status # "running"
    /\ Len(history) < MaxRuns
    /\ run' = [currentCapital |-> initialCapital,
               earlier |-> Len(engine.results),
               endDate |-> endDate,
               error |-> "none",
               filteredData |-> filterDataByDate(engine.historicalData, startDate, endDate),
               historicalData |-> engine.historicalData,
               i |-> 0,
               initialCapital |-> initialCapital,
               portfolio |-> <<>>,
               positions |-> <<>>,
               results |-> emptyResults(strategy, initialCapital),
               startDate |-> startDate,
               status |-> "running",
               strategy |-> strategy]
    /\ UNCHANGED <<allocVars, engine, history, probe, statVars>>

steppedDoubleEntry(r, decision, currentData, now) ==
    LET date == currentData.timestamp
        st == applyDecision([currentCapital |-> r.currentCapital,
                             portfolio |-> r.portfolio,
                             positions |-> r.positions,
                             trades |-> r.results.trades],
                            decision, currentData.prices, date, now)
        portfolioValue == calculatePortfolioValue(st.portfolio, currentData.prices)
        entry == historyEntry(date, st.currentCapital, portfolioValue)
        dailyReturns ==
            IF r.i > 0
            THEN LET previousValue == r.results.portfolioHistory[r.i].totalValue
                 IN  Append(r.results.dailyReturns,
                            Frac(entry.totalValue - previousValue, previousValue))
            ELSE r.results.dailyReturns
    IN  [r EXCEPT !.currentCapital = st.currentCapital,
                  !.portfolio = st.portfolio,
                  !.positions = st.positions,
                  !.i = r.i + 1,
                  !.results = [r.results EXCEPT
                                  !.trades = st.trades,
                                  !.portfolioHistory = Append(Append(@, entry), entry),
                                  !.dailyReturns = dailyReturns]]

\* the run after one more iteration of the loop that did not throw
stepped(r, decision, currentData, now) ==
    LET date == currentData.timestamp
        st == applyDecision([currentCapital |-> r.currentCapital,
                             portfolio |-> r.portfolio,
                             positions |-> r.positions,
                             trades |-> r.results.trades],
                            decision, currentData.prices, date, now)
        portfolioValue == calculatePortfolioValue(st.portfolio, currentData.prices)
        entry == historyEntry(date, st.currentCapital, portfolioValue)
        dailyReturns ==
            IF r.i > 0
            THEN LET previousValue == r.results.portfolioHistory[r.i].totalValue
                 IN  Append(r.results.dailyReturns,
                            Frac(entry.totalValue - previousValue, previousValue))
            ELSE r.results.dailyReturns
    IN  [r EXCEPT !.currentCapital = st.currentCapital,
                  !.portfolio = st.portfolio,
                  !.positions = st.positions,
                  !.i = r.i + 1,
                  !.results = [r.results EXCEPT
                                  !.trades = st.trades,
                                  !.portfolioHistory = Append(@, entry),
                                  !.dailyReturns = dailyReturns]]

\* one iteration of the loop; a decision that throws rejects the promise
Step ==
    /\ run.status = "running"
    /\ run.i < Len(run.filteredData)
    /\ \E now \in Clock :
          LET currentData == run.filteredData[run.i + 1]
              decision == makeStrategyDecision(strategies, run.strategy,
                                               currentData, run.portfolio)
          IN  IF decision.action = "throw"
              THEN /\ run' = [run EXCEPT !.status = "failed", !.error = decision.error]
                   /\ history' = Append(history, run')
              ELSE /\ run' = stepped(run, decision, currentData, now)
                   /\ UNCHANGED history
    /\ UNCHANGED <<allocVars, engine, probe, statVars>>

\* the final calculations
finished(r) ==
    LET lastPortfolioValue == r.results.portfolioHistory[Len(r.results.portfolioHistory)]
        finalCapital == lastPortfolioValue.totalValue
    IN  [r EXCEPT !.status = "done",
                  !.results = [r.results EXCEPT
                      !.finalCapital = finalCapital,
                      !.totalReturn = Frac(finalCapital - r.initialCapital, r.initialCapital),
                      !.maxDrawdown = calculateMaxDrawdown(r.results.portfolioHistory),
                      !.sharpeRatio = calculateSharpeRatio(r.results.dailyReturns)]]

FinishEmptyAsFlat ==
    /\ run.status = "running"
    /\ run.i = Len(run.filteredData)
    /\ IF run.results.portfolioHistory = <<>>
       THEN run' = [run EXCEPT !.status = "done",
                               !.results = [run.results EXCEPT
                                               !.finalCapital = run.initialCapital]]
       ELSE run' = finished(run)
    /\ engine' = [engine EXCEPT !.results = mapSet(@, run.strategy, run'.results)]
    /\ history' = Append(history, run')
    /\ UNCHANGED <<allocVars, probe, statVars>>

\* runBacktest after the loop
Finish ==
    /\ run.status = "running"
    /\ run.i = Len(run.filteredData)
    /\ IF run.results.portfolioHistory = <<>>
       THEN /\ run' = [run EXCEPT !.status = "failed", !.error = readOfUndefined]
            /\ UNCHANGED engine
       ELSE /\ run' = finished(run)
            /\ engine' = [engine EXCEPT
                             !.results = mapSet(@, run.strategy, run'.results)]
    /\ history' = Append(history, run')
    /\ UNCHANGED <<allocVars, probe, statVars>>

BacktestNext ==
    \/ \E historicalData \in HistoricalDataSets : NewEngine(historicalData)
    \/ \E strategy \in RunStrategies, range \in DateRanges,
          initialCapital \in InitialCapitals :
          RunBacktest(strategy, range[1], range[2], initialCapital)
    \/ Step
    \/ Finish

BacktestSpec == BacktestInit /\ [][BacktestNext]_vars

(***************************************************************************)
(* The performance statistics: PerformanceAnalytics.  A data point is      *)
(* { timestamp, portfolioValue, benchmark, returns }; a benchmark is null  *)
(* or a number, in ten-thousandths.                                        *)
(***************************************************************************)
\* calculateBeta: the points below which the default is returned
MinBetaPoints == 10

\* d.benchmark || 0.0002, in ten-thousandths
DefaultMarketReturn == 2

null == [kind |-> "null"]

number(n) == [kind |-> "number", value |-> n]

\* the data point addDataPoint builds: returns is 0 for the first point
dataPoint(historicalData, timestamp, portfolioValue, benchmark) ==
    [benchmark |-> benchmark,
     portfolioValue |-> portfolioValue,
     returns |-> IF Len(historicalData) > 0
                 THEN LET lastValue == historicalData[Len(historicalData)].portfolioValue
                      IN  Frac(portfolioValue - lastValue, lastValue)
                 ELSE Zero,
     timestamp |-> timestamp]

stepReturnsWithFirst(historicalData) ==
    [k \in 1..Len(historicalData) |-> historicalData[k].returns]

\* this.historicalData.slice(1).map(d => d.returns)
stepReturns(historicalData) ==
    [k \in 1..(Len(historicalData) - 1) |-> historicalData[k + 1].returns]

\* calculateTotalReturns
calculateTotalReturns(historicalData) ==
    LET firstValue == historicalData[1].portfolioValue
        lastValue == historicalData[Len(historicalData)].portfolioValue
    IN  Frac(lastValue - firstValue, firstValue)

\* calculateVolatility: Math.sqrt(variance) * Math.sqrt(365), which is 0
\* when the square root of the variance is, and otherwise the value the
\* floating-point arithmetic gives, kept as a function of the returns
calculateVolatility(historicalData) ==
    LET returns == stepReturns(historicalData)
    IN  IF zeroVolatility(returns) THEN Zero ELSE [volatilityOf |-> returns]

\* PerformanceAnalytics.calculateSharpeRatio, which reads the volatility
\* calculateVolatility has just stored
analyticsSharpeRatio(historicalData, volatility) ==
    IF volatility = Zero THEN Zero
    ELSE [sharpeOf |-> stepReturns(historicalData)]

\* the loop of PerformanceAnalytics.calculateMaxDrawdown
RECURSIVE analyticsDrawdownLoop(_, _, _)
analyticsDrawdownLoop(points, peak, maxDrawdown) ==
    IF points = <<>> THEN maxDrawdown
    ELSE LET value == Head(points).portfolioValue
             newPeak == IF value > peak THEN value ELSE peak
             drawdown == Frac(newPeak - value, newPeak)
         IN  analyticsDrawdownLoop(Tail(points), newPeak,
                                   IF FracGt(drawdown, maxDrawdown)
                                   THEN drawdown ELSE maxDrawdown)

analyticsMaxDrawdownPeakFromSecond(historicalData) ==
    analyticsDrawdownLoop(Tail(historicalData), historicalData[2].portfolioValue, Zero)

\* PerformanceAnalytics.calculateMaxDrawdown
analyticsMaxDrawdown(historicalData) ==
    analyticsDrawdownLoop(historicalData, historicalData[1].portfolioValue, Zero)

\* calculateWinRate
calculateWinRate(historicalData) ==
    LET returns == stepReturns(historicalData)
        positiveReturns == Cardinality({k \in 1..Len(returns) : FracGt(returns[k], Zero)})
    IN  IF Len(returns) > 0 THEN Frac(positiveReturns, Len(returns)) ELSE Zero

\* updateMetrics: nothing with fewer than two points
updateMetrics(a) ==
    IF Len(a.historicalData) < 2 THEN a
    ELSE LET volatility == calculateVolatility(a.historicalData)
         IN  [a EXCEPT !.metrics =
                 [maxDrawdown |-> analyticsMaxDrawdown(a.historicalData),
                  sharpeRatio |-> analyticsSharpeRatio(a.historicalData, volatility),
                  totalReturns |-> calculateTotalReturns(a.historicalData),
                  volatility |-> volatility,
                  winRate |-> calculateWinRate(a.historicalData)]]

\* addDataPoint(timestamp, portfolioValue, benchmark)
addDataPoint(a, timestamp, portfolioValue, benchmark) ==
    updateMetrics([a EXCEPT !.historicalData =
        Append(@, dataPoint(a.historicalData, timestamp, portfolioValue, benchmark))])

\* d.benchmark || 0.0002
benchmarkOrDefault(benchmark) ==
    IF benchmark.kind = "null" THEN DefaultMarketReturn
    ELSE IF benchmark.value = 0 THEN DefaultMarketReturn
    ELSE benchmark.value

\* is calculateVariance(marketReturns) exactly 0?  The first market return
\* is 0 and the i-th is (arr[i] - arr[i-1]) / arr[i-1]: the variance is 0
\* when all of them are 0 and positive otherwise
zeroMarketVariance(historicalData) ==
    \A k \in 3..Len(historicalData) :
        benchmarkOrDefault(historicalData[k].benchmark)
            = benchmarkOrDefault(historicalData[k - 1].benchmark)

One == Frac(1, 1)

calculateBetaFromNine(historicalData) ==
    IF Len(historicalData) < MinBetaPoints - 1 THEN One
    ELSE IF zeroMarketVariance(historicalData) THEN One
    ELSE [betaOf |-> historicalData]

\* calculateBeta: 1 below ten points and when the market variance is 0;
\* otherwise covariance / marketVariance, kept as a function of the points
calculateBeta(historicalData) ==
    IF Len(historicalData) < MinBetaPoints THEN One
    ELSE IF zeroMarketVariance(historicalData) THEN One
    ELSE [betaOf |-> historicalData]

(***************************************************************************)
(* Recording a timeline and computing the statistics of it: addDataPoint   *)
(* on the PerformanceAnalytics instance, and the backtest engine's         *)
(* calculateMaxDrawdown and calculateSharpeRatio called on the values the  *)
(* instance has recorded.  probe holds the last call.                      *)
(***************************************************************************)
\* the points recorded in a timeline
MaxPoints == 4

\* the points recorded in a timeline that calculateBeta is asked about
MaxBetaPoints == 10

\* the values recorded: equal steps, steps growing by a fifth, falls
PortfolioValues == {50, 100, 125, 150, 180, 216}

AnalyticsInit ==
    /\ allocIdle
    /\ engine = noEngine
    /\ run = noRun
    /\ history = <<>>
    /\ probe = noProbe
    /\ analytics = newAnalytics
    /\ config = newConfig

\* analytics.addDataPoint(timestamp, portfolioValue, benchmark)
AddDataPoint(timestamp, portfolioValue, benchmark) ==
    /\ analytics' = addDataPoint(analytics, timestamp, portfolioValue, benchmark)
    /\ probe' = [op |-> "addDataPoint", thrown |-> "none"]
    /\ UNCHANGED <<allocVars, engine, run, history, config>>

\* the portfolioHistory of a run whose total values are the recorded values
historyOf(historicalData) ==
    [k \in 1..Len(historicalData) |->
        historyEntry(historicalData[k].timestamp, historicalData[k].portfolioValue, 0)]

\* the dailyReturns runBacktest pushes for that portfolioHistory
dailyReturnsOf(portfolioHistory) ==
    [k \in 1..(Len(portfolioHistory) - 1) |->
        Frac(portfolioHistory[k + 1].totalValue - portfolioHistory[k].totalValue,
             portfolioHistory[k].totalValue)]

\* engine.calculateMaxDrawdown(portfolioHistory)
CalculateMaxDrawdown ==
    /\ probe' = [op |-> "calculateMaxDrawdown",
                 returned |-> calculateMaxDrawdown(historyOf(analytics.historicalData)),
                 thrown |-> "none"]
    /\ UNCHANGED <<allocVars, engine, run, history, statVars>>

\* engine.calculateSharpeRatio(dailyReturns)
CalculateSharpeRatio ==
    /\ probe' = [op |-> "calculateSharpeRatio",
                 returned |-> calculateSharpeRatio(
                                  dailyReturnsOf(historyOf(analytics.historicalData))),
                 thrown |-> "none"]
    /\ UNCHANGED <<allocVars, engine, run, history, statVars>>

AnalyticsNext ==
    \/ /\ Len(analytics.historicalData) < MaxPoints
       /\ \E portfolioValue \in PortfolioValues :
             AddDataPoint(Len(analytics.historicalData) + 1, portfolioValue, null)
    \/ CalculateMaxDrawdown
    \/ CalculateSharpeRatio

AnalyticsSpec == AnalyticsInit /\ [][AnalyticsNext]_vars

(***************************************************************************)
(* Timelines around the ten points calculateBeta asks for, with and        *)
(* without benchmarks.                                                     *)
(***************************************************************************)
\* a point without a benchmark, and a point with one
BetaPoints == { <<100, null>>, <<110, number(105)>> }

\* analytics.calculateBeta()
CalculateBeta ==
    /\ probe' = [op |-> "calculateBeta",
                 returned |-> calculateBeta(analytics.historicalData),
                 thrown |-> "none"]
    /\ UNCHANGED <<allocVars, engine, run, history, statVars>>

BetaNext ==
    \/ /\ Len(analytics.historicalData) < MaxBetaPoints
       /\ \E point \in BetaPoints :
             AddDataPoint(Len(analytics.historicalData) + 1, point[1], point[2])
    \/ CalculateBeta

BetaSpec == AnalyticsInit /\ [][BetaNext]_vars

(***************************************************************************)
(* The settings: ConfigManager                                             *)
(***************************************************************************)
\* validate(): the message of the Error it throws, "none" when it returns
validate(cfg) ==
    IF cfg.maxRiskTolerance < 0 \/ cfg.maxRiskTolerance > 100
    THEN "maxRiskTolerance must be between 0 and 1"
    ELSE IF cfg.minAPY < 0
    THEN "minAPY must be positive"
    ELSE IF cfg.maxSlippage < 0 \/ cfg.maxSlippage > 1000
    THEN "maxSlippage must be between 0 and 0.1"
    ELSE "none"

setValidatingFirst(cfg, key, value) ==
    LET written == [cfg EXCEPT ![key] = value]
    IN  [config |-> IF validate(written) = "none" THEN written ELSE cfg,
         thrown |-> validate(written)]

\* this.config[key] = value; this.validate()
set(cfg, key, value) ==
    LET written == [cfg EXCEPT ![key] = value]
    IN  [config |-> written, thrown |-> validate(written)]

\* this.config[key]
get(cfg, key) == cfg[key]

\* the values a key is set to: inside its range, on its limits, outside
SettingValues(key) ==
    CASE key = "maxRiskTolerance" -> {-10, 0, 100, 150}
      [] key = "minAPY" -> {-100, 0}
      [] key = "maxSlippage" -> {-5, 1000, 2000}
      [] OTHER -> {5}

SettingKeys == DOMAIN defaultSettings

ConfigInit ==
    /\ allocIdle
    /\ engine = noEngine
    /\ run = noRun
    /\ history = <<>>
    /\ probe = noProbe
    /\ analytics = newAnalytics
    /\ config = newConfig

\* config.set(key, value); thrown is the error the caller gets
Set(key, value) ==
    /\ config' = [config |-> set(config.config, key, value).config,
                  last |-> [call |-> "set", key |-> key, value |-> value],
                  thrown |-> set(config.config, key, value).thrown]
    /\ UNCHANGED <<allocVars, simVars, analytics>>

\* config.get(key)
Get(key) ==
    /\ config' = [config EXCEPT
                     !.last = [call |-> "get", key |-> key,
                               returned |-> get(config.config, key)]]
    /\ UNCHANGED <<allocVars, simVars, analytics>>

ConfigNext ==
    \/ \E key \in SettingKeys : \E value \in SettingValues(key) : Set(key, value)
    \/ \E key \in SettingKeys : Get(key)

ConfigSpec == ConfigInit /\ [][ConfigNext]_vars

(***************************************************************************)
(* Vocabulary of the risk properties                                       *)
(***************************************************************************)
IsRiskProbe == probe.op \in {"calculateRisk", "assessRisk"}

\* the base the design gives the scorer that was called
BaseOf(op) == IF op = "calculateRisk" THEN 5 ELSE 3

Complete(p) == {"audited", "ageInDays", "tvl"} \subseteq DOMAIN p

\* base + 0.2 if not audited + 0.3 if young + 0.2 if illiquid, clamped to
\* [0, 1]; the three flags say which penalties apply  (tenths)
Penalised(base, unaudited, young, illiquid) ==
    LET sum == base + (IF unaudited THEN 2 ELSE 0) + (IF young THEN 3 ELSE 0)
                    + (IF illiquid THEN 2 ELSE 0)
    IN  IF sum > 10 THEN 10 ELSE IF sum < 0 THEN 0 ELSE sum

(***************************************************************************)
(* C11: the risk score is base + 0.2 if not audited + 0.3 if ageInDays <   *)
(* 90 + 0.2 if tvl < 10,000,000, clamped to [0,1], with base 0.5 in        *)
(* calculateRisk and 0.3 in assessRisk; it lies in [0,1] for every record  *)
(* and is a function of the audited, ageInDays and tvl fields alone.       *)
(***************************************************************************)
C11_RiskScore ==
    IsRiskProbe =>
        /\ probe.returned >= 0 /\ probe.returned <= 10
        /\ Complete(probe.protocol) =>
              probe.returned = Penalised(BaseOf(probe.op),
                                         ~probe.protocol.audited,
                                         probe.protocol.ageInDays < 90,
                                         probe.protocol.tvl < 10000000)

\* calculateRisk on an unaudited, young, illiquid record: the sum 1.2 is
\* clamped to 1
C11_Witness ==
    /\ probe.op = "calculateRisk"
    /\ Complete(probe.protocol)
    /\ ~probe.protocol.audited
    /\ probe.protocol.ageInDays = 89
    /\ probe.protocol.tvl = 9999999
    /\ probe.protocol.apy = 1200
    /\ probe.returned = 10

(***************************************************************************)
(* C12: a missing field counts as the risk-increasing case: no audited     *)
(* field scores as unaudited, no ageInDays field as young, no tvl field as *)
(* illiquid.                                                               *)
(***************************************************************************)
C12_MissingIsRisky ==
    IsRiskProbe =>
        probe.returned =
            Penalised(BaseOf(probe.op),
                      ~isTruthy(probe.protocol, "audited"),
                      "ageInDays" \notin DOMAIN probe.protocol
                          \/ probe.protocol.ageInDays < 90,
                      "tvl" \notin DOMAIN probe.protocol
                          \/ probe.protocol.tvl < 10000000)

(***************************************************************************)
(* Vocabulary of the decision properties                                   *)
(***************************************************************************)
IsDecision == probe.op = "makeStrategyDecision"

DecisionStrategy == initializeStrategies[probe.strategyName]

DecisionKnown == IsDecision /\ probe.strategyName \in DOMAIN initializeStrategies

Momentum(marketData) ==
    IF "signals" \in DOMAIN marketData THEN marketData.signals.momentum ELSE 0

\* the eligible opportunity of the best score, the earliest among equals
BestIndexes(list, s) ==
    { i \in EligibleIndexes(list, s) :
         \A j \in EligibleIndexes(list, s) :
            \/ backtestScore(list[i]) > backtestScore(list[j])
            \/ backtestScore(list[i]) = backtestScore(list[j]) /\ i <= j }

\* entries of the portfolio whose protocol is in the snapshot with a risk
\* score above the strategy's tolerance
RiskyHeld(portfolio, list, s) ==
    { k \in 1..Len(portfolio) :
         \E i \in 1..Len(list) :
            /\ list[i].name = portfolio[k].protocol
            /\ assessRisk(list[i]) > s.riskTolerance }

FirstOf(S) == CHOOSE k \in S : \A m \in S : k <= m

InSnapshot(name, list) == \E i \in 1..Len(list) : list[i].name = name

(***************************************************************************)
(* C14: the quantity held of a protocol never becomes negative: a sell     *)
(* takes a non-negative amount of a held protocol, not more than is held.  *)
(***************************************************************************)
C14_SellWithinHolding ==
    (IsDecision /\ probe.returned.action = "sell") =>
        \E k \in 1..Len(probe.currentPortfolio) :
           /\ probe.currentPortfolio[k].protocol = probe.returned.protocol
           /\ probe.returned.amount >= 0
           /\ probe.currentPortfolio[k].amount - probe.returned.amount >= 0

\* a sell decided on a portfolio of three protocols
C14_Witness ==
    /\ IsDecision /\ probe.returned.action = "sell"
    /\ Len(probe.currentPortfolio) = 3
    /\ probe.returned.amount > 0

(***************************************************************************)
(* C16: the holdings value is the sum of quantity x price over the held    *)
(* protocols, and a held protocol without a price in the snapshot's price  *)
(* mapping contributes 0.                                                  *)
(***************************************************************************)
RECURSIVE ValueOfPriced(_, _)
ValueOfPriced(portfolio, prices) ==
    IF portfolio = <<>> THEN 0
    ELSE (IF Head(portfolio).protocol \in DOMAIN prices
          THEN Head(portfolio).amount * prices[Head(portfolio).protocol]
          ELSE 0)
         + ValueOfPriced(Tail(portfolio), prices)

C16_UnpricedCountsZero ==
    probe.op = "calculatePortfolioValue" =>
        probe.returned = ValueOfPriced(probe.portfolio, probe.prices)

(***************************************************************************)
(* C17: the decision is a buy exactly when momentum > 0.05 and the best    *)
(* eligible opportunity exists, its yield being >= minAPY (a yield equal   *)
(* to minAPY does trigger the buy); the buy names that opportunity and an  *)
(* amount of min(1000, cash x 0.1).                                        *)
(***************************************************************************)
C17_BuyTrigger ==
    DecisionKnown =>
        LET list == probe.marketData.protocols
            best == BestIndexes(list, DecisionStrategy)
        IN  /\ probe.returned.action = "buy" <=>
                  (Momentum(probe.marketData) > 5 /\ best # {})
            /\ probe.returned.action = "buy" =>
                  /\ probe.returned.protocol = list[FirstOf(best)].name
                  /\ probe.returned.amount <= 1000

(***************************************************************************)
(* C18: the sell rule applies only when no buy fired; the held protocols   *)
(* are examined in insertion order, the first one in the snapshot whose    *)
(* risk score is above riskTolerance is sold for half of its quantity and  *)
(* no other; a held protocol absent from the snapshot is never sold.       *)
(***************************************************************************)
\* the buy branch was entered: momentum and a best opportunity above minAPY
BuyFired ==
    LET list == probe.marketData.protocols
        best == BestIndexes(list, DecisionStrategy)
    IN  /\ Momentum(probe.marketData) > 5
        /\ best # {}
        /\ list[FirstOf(best)].apy > DecisionStrategy.minAPY

C18_SellFirstRisky ==
    DecisionKnown =>
        LET risky == RiskyHeld(probe.currentPortfolio, probe.marketData.protocols,
                               DecisionStrategy)
        IN  /\ probe.returned.action = "sell" <=> (~BuyFired /\ risky # {})
            /\ probe.returned.action = "sell" =>
                  /\ probe.returned.protocol = probe.currentPortfolio[FirstOf(risky)].protocol
                  /\ probe.returned.amount * 2 = probe.currentPortfolio[FirstOf(risky)].amount
                  /\ InSnapshot(probe.returned.protocol, probe.marketData.protocols)

\* the second of three held protocols is sold: the first is not in the
\* snapshot, the third is as risky as the second
C18_Witness ==
    /\ DecisionKnown /\ probe.returned.action = "sell"
    /\ Len(probe.currentPortfolio) = 3
    /\ ~InSnapshot(probe.currentPortfolio[1].protocol, probe.marketData.protocols)
    /\ probe.returned.protocol = probe.currentPortfolio[2].protocol
    /\ 3 \in RiskyHeld(probe.currentPortfolio, probe.marketData.protocols, DecisionStrategy)
    /\ Momentum(probe.marketData) > 5

(***************************************************************************)
(* Vocabulary of the run properties                                        *)
(***************************************************************************)
Started == run.status # "idle"

Over == run.status \in {"done", "failed"}

RunEntries == run.results.portfolioHistory

\* the results the engine has stored
StoredResults == { engine.results[k].value : k \in 1..Len(engine.results) }

EntrySound(e) == e.totalValue = e.capital + e.portfolioValue

(***************************************************************************)
(* C13: in every entry appended to portfolioHistory, totalValue is the     *)
(* cash plus the holdings value, both as they are after the trade of that  *)
(* snapshot.                                                               *)
(***************************************************************************)
C13_TotalIsCashPlusHoldings ==
    /\ Started => \A k \in 1..Len(RunEntries) : EntrySound(RunEntries[k])
    /\ \A r \in StoredResults :
          \A k \in 1..Len(r.portfolioHistory) : EntrySound(r.portfolioHistory[k])
    /\ (run.status = "running" /\ run.i > 0) =>
          /\ Len(RunEntries) = run.i
          /\ RunEntries[run.i].capital = run.currentCapital
          /\ RunEntries[run.i].portfolioValue =
                calculatePortfolioValue(run.portfolio, run.filteredData[run.i].prices)

\* a run of three snapshots returned its results, the total being the
\* initial capital in each entry
C13_Witness ==
    /\ run.status = "done"
    /\ Len(RunEntries) = 3
    /\ \A k \in 1..3 : RunEntries[k].totalValue = run.initialCapital
    /\ run.results \in StoredResults

(***************************************************************************)
(* C15: a buy whose cost (amount x price) is above the cash is skipped     *)
(* without an error: the run goes on to the next snapshot, and the cash of *)
(* no recorded step is negative.                                           *)
(***************************************************************************)
\* the buy the decision rule asks for at a snapshot
BuyAsked(data, strategyName) ==
    /\ strategyName \in DOMAIN initializeStrategies
    /\ Momentum(data) > 5
    /\ BestIndexes(data.protocols, initializeStrategies[strategyName]) # {}

CostAsked(data, strategyName, cash) ==
    LET list == data.protocols
        best == list[FirstOf(BestIndexes(list, initializeStrategies[strategyName]))]
    IN  Min(1000, cash \div 10) * data.prices[best.name]

C15_UnaffordableBuySkipped ==
    /\ Started => \A k \in 1..Len(RunEntries) : RunEntries[k].capital >= 0
    /\ (run.status = "failed" /\ run.i < Len(run.filteredData)) =>
          LET data == run.filteredData[run.i + 1]
          IN  ~ /\ BuyAsked(data, run.strategy)
                /\ CostAsked(data, run.strategy, run.currentCapital) > run.currentCapital

(***************************************************************************)
(* C19: two runs with the same strategy, snapshots, date range and         *)
(* initial capital have the same outcome, the same trades (protocol,       *)
(* amount, price, direction) and the same portfolioHistory, whichever      *)
(* engine they ran on and whatever that engine had stored before.          *)
(***************************************************************************)
SameInputs(a, b) ==
    /\ a.strategy = b.strategy
    /\ a.historicalData = b.historicalData
    /\ a.startDate = b.startDate
    /\ a.endDate = b.endDate
    /\ a.initialCapital = b.initialCapital

TradesOf(r) ==
    [k \in 1..Len(r.results.trades) |->
        [amount |-> r.results.trades[k].amount, price |-> r.results.trades[k].price,
         protocol |-> r.results.trades[k].protocol, type |-> r.results.trades[k].type]]

SameOutcome(a, b) ==
    /\ a.status = b.status
    /\ a.error = b.error
    /\ TradesOf(a) = TradesOf(b)
    /\ a.results.portfolioHistory = b.results.portfolioHistory

C19_SameRunSameOutcome ==
    \A i, j \in 1..Len(history) :
       SameInputs(history[i], history[j]) => SameOutcome(history[i], history[j])

\* the same run twice on one engine: the second one started with the
\* results of the first one stored
C19_Witness ==
    /\ Len(history) = 2
    /\ SameInputs(history[1], history[2])
    /\ history[1].status = "done"
    /\ history[1].earlier = 0
    /\ history[2].earlier = 1
    /\ Len(history[2].results.portfolioHistory) >= 2

(***************************************************************************)
(* C20: a run over snapshots whose timestamps are not in chronological     *)
(* order fails with an invalid-argument error: it appends nothing to       *)
(* portfolioHistory and returns no results.                                *)
(***************************************************************************)
Chronological(data) ==
    \A i, j \in 1..Len(data) : i < j => data[i].timestamp <= data[j].timestamp

C20_OutOfOrderRejected ==
    (Started /\ ~Chronological(run.filteredData)) =>
        /\ RunEntries = <<>>
        /\ Over => (run.status = "failed" /\ run.error = "InvalidArgument")

(***************************************************************************)
(* C21: a run asked for a strategy name the registry does not have fails   *)
(* at once with a configuration error: no snapshot is replayed and no      *)
(* result is returned or stored under that name.                           *)
(***************************************************************************)
C21_UnknownStrategyRejected ==
    (Started /\ run.strategy \notin DOMAIN initializeStrategies) =>
        /\ RunEntries = <<>>
        /\ run.status # "done"
        /\ run.status = "failed" => run.error = "ConfigurationError"
        /\ ~mapHas(engine.results, run.strategy)

(***************************************************************************)
(* C27: the snapshots are processed in their order, one portfolioHistory   *)
(* entry per snapshot; after k snapshots portfolioHistory has k entries,   *)
(* dailyReturns max(0, k-1) and the trade log at most k; a step appends at *)
(* most one trade, keeps the earlier trades and entries as they were, and  *)
(* leaves cash and holdings alone when it trades nothing.                  *)
(***************************************************************************)
IsPrefix(a, b) == Len(a) <= Len(b) /\ SubSeq(b, 1, Len(a)) = a

Counted(r) ==
    /\ Len(r.results.portfolioHistory) = r.i
    /\ Len(r.results.dailyReturns) = (IF r.i = 0 THEN 0 ELSE r.i - 1)
    /\ Len(r.results.trades) <= r.i
    /\ \A k \in 1..r.i : r.results.portfolioHistory[k].date = r.filteredData[k].timestamp

C27_OneEntryPerSnapshot ==
    [][ /\ run'.status # "idle" => Counted(run')
        /\ (run.status = "running" /\ run'.status = "running") =>
              /\ run'.i = run.i + 1
              /\ IsPrefix(run.results.portfolioHistory, run'.results.portfolioHistory)
              /\ IsPrefix(run.results.trades, run'.results.trades)
              /\ Len(run'.results.trades) <= Len(run.results.trades) + 1
              /\ run'.results.trades = run.results.trades =>
                     /\ run'.currentCapital = run.currentCapital
                     /\ run'.portfolio = run.portfolio ]_vars

\* a run over three snapshots has returned
C27_Witness ==
    /\ run.status = "done"
    /\ run.i = 3
    /\ Len(RunEntries) = 3
    /\ Len(run.results.dailyReturns) = 2

(***************************************************************************)
(* C28: at a snapshot where the buy condition of the code holds (momentum  *)
(* > 0.05 and a best protocol with apy > minAPY) the run fails with a      *)
(* TypeError and this.results is left as it was; so every stored result    *)
(* has no trade and a totalValue equal to initialCapital in every entry.   *)
(***************************************************************************)
TriggerAt(data, strategyName) ==
    /\ strategyName \in DOMAIN initializeStrategies
    /\ Momentum(data) > 5
    /\ LET s == initializeStrategies[strategyName]
           best == BestIndexes(data.protocols, s)
       IN  best # {} /\ data.protocols[FirstOf(best)].apy > s.minAPY

Flat(r) ==
    /\ r.trades = <<>>
    /\ \A k \in 1..Len(r.portfolioHistory) :
          r.portfolioHistory[k].totalValue = r.initialCapital

C28_BuyTriggerFailsRun ==
    [][ /\ ( /\ run.status = "running"
             /\ run.i < Len(run.filteredData)
             /\ TriggerAt(run.filteredData[run.i + 1], run.strategy) ) =>
               /\ run'.status = "failed"
               /\ run'.error = "TypeError"
               /\ engine' = engine
        /\ \A k \in 1..Len(engine'.results) : Flat(engine'.results[k].value) ]_vars

\* a run failed at its second snapshot, on an engine that keeps the result
\* of an earlier run
C28_Witness ==
    /\ run.status = "failed"
    /\ run.error = "TypeError"
    /\ run.i = 1
    /\ TriggerAt(run.filteredData[2], run.strategy)
    /\ run.earlier = 1
    /\ Len(engine.results) = 1

(***************************************************************************)
(* C29: a run whose date range holds no snapshot (or whose engine has no   *)
(* data) returns no result: it fails reading the last portfolioHistory     *)
(* entry, and this.results is left as it was.                              *)
(***************************************************************************)
C29_EmptyRangeFails ==
    [][ (run.status = "running" /\ run.filteredData = <<>>) =>
           /\ run'.status = "failed"
           /\ run'.error = "TypeError"
           /\ run'.results.portfolioHistory = <<>>
           /\ engine' = engine ]_vars

\* the failed run of an empty range on an engine with data that has a
\* result of that strategy stored
C29_Witness ==
    /\ run.status = "failed"
    /\ run.filteredData = <<>>
    /\ run.historicalData # <<>>
    /\ mapHas(engine.results, run.strategy)
    /\ mapGet(engine.results, run.strategy).portfolioHistory # <<>>

(***************************************************************************)
(* C30: set writes the value before it validates.  Whether or not the set  *)
(* throws, the value is stored and nothing else changes; a set throws      *)
(* exactly when the configuration it leaves is outside the ranges          *)
(* (maxRiskTolerance in [0,1], minAPY >= 0, maxSlippage in [0,0.1]), so    *)
(* every set throws while an invalid value stays stored; get returns what  *)
(* is stored, the invalid value included.                                  *)
(***************************************************************************)
InRanges(cfg) ==
    /\ cfg.maxRiskTolerance >= 0 /\ cfg.maxRiskTolerance <= 100
    /\ cfg.minAPY >= 0
    /\ cfg.maxSlippage >= 0 /\ cfg.maxSlippage <= 1000

C30_WriteBeforeValidate ==
    [][ /\ config'.last.call = "set" =>
              /\ config'.config = [config.config EXCEPT
                                      ![config'.last.key] = config'.last.value]
              /\ (config'.thrown = "none") <=> InRanges(config'.config)
        /\ config'.last.call = "get" =>
              /\ config'.config = config.config
              /\ config'.last.returned = config.config[config'.last.key] ]_vars

\* with maxRiskTolerance left at 1.5 by a set that threw, the set of
\* another key to a value in its range has thrown as well, and stored it
C30_Witness ==
    /\ config.last.call = "set"
    /\ config.last.key = "maxSlippage"
    /\ config.last.value = 1000
    /\ config.config.maxSlippage = 1000
    /\ config.config.maxRiskTolerance = 150
    /\ config.thrown = "maxRiskTolerance must be between 0 and 1"

(***************************************************************************)
(* Vocabulary of the statistics properties                                 *)
(***************************************************************************)
\* the values recorded, in order
Timeline == [k \in 1..Len(analytics.historicalData) |->
                analytics.historicalData[k].portfolioValue]

Measured == Len(Timeline) >= 2

RECURSIVE PeakAt(_)
PeakAt(i) == IF i = 1 THEN Timeline[1]
             ELSE IF Timeline[i] > PeakAt(i - 1) THEN Timeline[i] ELSE PeakAt(i - 1)

DrawdownAt(i) == Frac(PeakAt(i) - Timeline[i], PeakAt(i))

\* md is the largest of the drawdowns of the timeline
IsMaxDrawdown(md) ==
    /\ \A i \in 1..Len(Timeline) : ~FracGt(DrawdownAt(i), md)
    /\ \E i \in 1..Len(Timeline) : FracEq(DrawdownAt(i), md)

NonDecreasing == \A i \in 2..Len(Timeline) : Timeline[i] >= Timeline[i - 1]

\* md is what the definition of the maximum drawdown gives for the timeline
MaxDrawdownSound(md) ==
    /\ IsMaxDrawdown(md)
    /\ md.den > 0 /\ md.num >= 0 /\ md.num < md.den
    /\ NonDecreasing => md.num = 0
    /\ Timeline = <<100, 50>> => FracEq(md, Frac(1, 2))

(***************************************************************************)
(* C22: for every timeline of positive values the maximum drawdown is the  *)
(* largest (peak_i - v_i) / peak_i, peak_i being the largest value up to   *)
(* i: 0 on a timeline that never falls, 0.5 on [100, 50], always in [0,1); *)
(* the analytics module and the backtest engine give the same value for    *)
(* the same timeline.                                                      *)
(***************************************************************************)
C22_MaxDrawdown ==
    /\ Measured => MaxDrawdownSound(analytics.metrics.maxDrawdown)
    /\ probe.op = "calculateMaxDrawdown" /\ Len(Timeline) >= 1 =>
          /\ MaxDrawdownSound(probe.returned)
          /\ Measured => FracEq(probe.returned, analytics.metrics.maxDrawdown)

C22_Witness ==
    /\ Timeline = <<100, 50>>
    /\ probe.op = "calculateMaxDrawdown"
    /\ FracEq(probe.returned, Frac(1, 2))
    /\ FracEq(analytics.metrics.maxDrawdown, Frac(1, 2))

\* the step return r_i = (v_i - v_{i-1}) / v_{i-1} of the timeline, i >= 2
StepReturn(i) == Frac(Timeline[i] - Timeline[i - 1], Timeline[i - 1])

\* every step of the timeline has the same return
EqualSteps == \A i \in 2..Len(Timeline) : FracEq(StepReturn(i), StepReturn(2))

(***************************************************************************)
(* C23: the Sharpe ratio is exactly 0 whenever all step returns are equal, *)
(* on a flat timeline such as [100, 100, 100] and on a timeline growing by *)
(* the same rate every step alike, in the analytics module and in the      *)
(* backtest engine, and nothing is raised.                                 *)
(***************************************************************************)
C23_SharpeZeroOnEqualSteps ==
    Measured /\ EqualSteps =>
       /\ probe.thrown = "none"
       /\ analytics.metrics.sharpeRatio = Zero
       /\ probe.op = "calculateSharpeRatio" => probe.returned = Zero

(***************************************************************************)
(* C24: calculateBeta returns exactly 1 for every timeline of fewer than   *)
(* ten data points, whatever values and whatever benchmarks, or none, were *)
(* recorded with them.                                                     *)
(***************************************************************************)
C24_BetaDefaultBelowTen ==
    probe.op = "calculateBeta" /\ Len(analytics.historicalData) < 10 =>
       /\ probe.thrown = "none"
       /\ probe.returned = Frac(1, 1)

\* nine points, of different values, some with a benchmark and some without
C24_Witness ==
    /\ probe.op = "calculateBeta"
    /\ Len(analytics.historicalData) = 9
    /\ \E i, k \in 1..9 :
          /\ analytics.historicalData[i].benchmark = null
          /\ analytics.historicalData[k].benchmark = number(105)
          /\ analytics.historicalData[k].portfolioValue
                # analytics.historicalData[i].portfolioValue
    /\ probe.returned = Frac(1, 1)

(***************************************************************************)
(* C25: a statistic asked of a timeline shorter than it needs fails with   *)
(* an insufficient-data error: with a single point recorded, and so no     *)
(* step return, the Sharpe ratio is an error and not a number such as 0,   *)
(* in the metrics of the analytics module and from the backtest engine.    *)
(***************************************************************************)
C25_ShortTimelineIsError ==
    Len(Timeline) = 1 =>
       /\ analytics.metrics.sharpeRatio # Zero
       /\ probe.op = "calculateSharpeRatio" =>
             /\ probe.thrown = "InsufficientDataError"
             /\ probe.returned # Zero

\* the step returns of the whole timeline, from the second point on
Recomputed == [k \in 1..(Len(Timeline) - 1) |-> StepReturn(k + 1)]

\* the steps of the timeline that rose
Wins == {i \in 2..Len(Timeline) : Timeline[i] > Timeline[i - 1]}

(***************************************************************************)
(* C26: after any sequence of addDataPoint calls that recorded at least    *)
(* two points, every stored metric is the value computed from scratch over *)
(* the whole recorded timeline, with the step returns                      *)
(* r_i = (v_i - v_{i-1}) / v_{i-1} of the second and later points only;    *)
(* the metrics never lag behind historicalData.                            *)
(***************************************************************************)
C26_MetricsRecomputed ==
    Measured =>
       /\ \A i \in 2..Len(Timeline) :
             FracEq(analytics.historicalData[i].returns, StepReturn(i))
       /\ FracEq(analytics.metrics.totalReturns,
                 Frac(Timeline[Len(Timeline)] - Timeline[1], Timeline[1]))
       /\ analytics.metrics.volatility =
             IF zeroVolatility(Recomputed) THEN Zero ELSE [volatilityOf |-> Recomputed]
       /\ analytics.metrics.sharpeRatio =
             IF zeroVolatility(Recomputed) THEN Zero ELSE [sharpeOf |-> Recomputed]
       /\ IsMaxDrawdown(analytics.metrics.maxDrawdown)
       /\ FracEq(analytics.metrics.winRate,
                 Frac(Cardinality(Wins), Len(Timeline) - 1))

\* a rise, a fall and a rise have been recorded, the last just now
C26_Witness ==
    /\ probe.op = "addDataPoint"
    /\ Timeline = <<100, 150, 125, 216>>
    /\ analytics.metrics.volatility # Zero
    /\ FracEq(analytics.metrics.winRate, Frac(2, 3))
    /\ FracEq(analytics.metrics.totalReturns, Frac(116, 100))

====
